---- MODULE Spec2Model ----
(***************************************************************************)
(* Gamma squeeze scanner: candidate pipeline of the scanner variants V2    *)
(* (src/unnamed/part_004), V3 (src/gamma_scanner/scanner_v3.js), V4        *)
(* (src/gamma_scanner/scanner_v4.js) and V5 (src/unnamed/part_002).        *)
(*                                                                         *)
(* JavaScript numbers are modelled exactly: a percentage the code computes *)
(* with a division is kept as a fraction [num, den] (den > 0) and compared *)
(* by cross-multiplication; NaN is the distinguished value NaN, for which  *)
(* every comparison is false and which is falsy, as in JavaScript.         *)
(***************************************************************************)
EXTENDS Integers, Sequences, FiniteSets, TLC

\* ------------------------------------------------------------------------
\* Bounds of the model
\* ------------------------------------------------------------------------

\* longest raw STOCK_UNIVERSE list explored
MaxUniverse == 2

\* ------------------------------------------------------------------------
\* JavaScript numbers
\* ------------------------------------------------------------------------

\* parseFloat / parseInt of a missing field
NaN == -999999

Truthy(x) == x # NaN /\ x # 0

\* a || b on numbers
JsOr(a, b) == IF Truthy(a) THEN a ELSE b

JsLe(a, b) == a # NaN /\ b # NaN /\ a <= b
JsGe(a, b) == a # NaN /\ b # NaN /\ a >= b
JsGt(a, b) == a # NaN /\ b # NaN /\ a > b

\* the quotient n / d of two numbers, d > 0
Q(n, d) == [num |-> n, den |-> d]
QI(k) == Q(k, 1)

QLt(a, b) == a.num * b.den < b.num * a.den
QLe(a, b) == a.num * b.den <= b.num * a.den
QGt(a, b) == QLt(b, a)
QGe(a, b) == QLe(b, a)
QEq(a, b) == a.num * b.den = b.num * a.den

\* Math.max that returns its second argument
QMax_Second(a, b) == b

QMax(a, b) == IF QGe(a, b) THEN a ELSE b
QMin(a, b) == IF QLe(a, b) THEN a ELSE b
QAbs(a) == IF a.num < 0 THEN Q(-a.num, a.den) ELSE a

\* ------------------------------------------------------------------------
\* Sequences
\* ------------------------------------------------------------------------

Last(s) == s[Len(s)]

\* Array.prototype.reverse
Reverse(s) == [j \in 1..Len(s) |-> s[Len(s) + 1 - j]]

\* Array.prototype.slice(-n): the trailing n elements (all when shorter)
SliceLast(s, n) == IF Len(s) <= n THEN s ELSE SubSeq(s, Len(s) - n + 1, Len(s))

\* Array.prototype.slice(0, n)
SliceFirst(s, n) == IF Len(s) <= n THEN s ELSE SubSeq(s, 1, n)

\* Array.prototype.slice(-a, -b), a > b > 0
SliceMid(s, a, b) ==
    LET from == IF Len(s) - a < 0 THEN 0 ELSE Len(s) - a
        to   == IF Len(s) - b < 0 THEN 0 ELSE Len(s) - b
    IN  IF from >= to THEN << >> ELSE SubSeq(s, from + 1, to)

RECURSIVE SumSeq(_)
SumSeq(s) ==
    IF s = << >> THEN 0
    ELSE IF Len(s) = 1 THEN s[1]
    ELSE LET h == Len(s) \div 2
         IN  SumSeq(SubSeq(s, 1, h)) + SumSeq(SubSeq(s, h + 1, Len(s)))

RECURSIVE MaxSeq(_)
MaxSeq(s) == IF Len(s) = 1 THEN s[1]
             ELSE LET m == MaxSeq(Tail(s)) IN IF s[1] >= m THEN s[1] ELSE m

RECURSIVE MinSeq(_)
MinSeq(s) == IF Len(s) = 1 THEN s[1]
             ELSE LET m == MinSeq(Tail(s)) IN IF s[1] <= m THEN s[1] ELSE m

Range(s) == {s[j] : j \in 1..Len(s)}

Closes(values)  == [j \in 1..Len(values) |-> values[j].close]
Highs(values)   == [j \in 1..Len(values) |-> values[j].high]
Lows(values)    == [j \in 1..Len(values) |-> values[j].low]
Volumes(values) == [j \in 1..Len(values) |-> values[j].volume]

\* ------------------------------------------------------------------------
\* Universe registry
\* ------------------------------------------------------------------------

\* [...new Set(list)]: insertion order of first occurrence
RECURSIVE Dedupe(_, _)
Dedupe(list, seen) ==
    IF list = << >> THEN << >>
    ELSE IF list[1] \in seen THEN Dedupe(Tail(list), seen)
         ELSE <<list[1]>> \o Dedupe(Tail(list), seen \cup {list[1]})

\* the raw list used as it is
UniqueOf_Raw(list) == list

UniqueOf(list) == Dedupe(list, {})

\* ------------------------------------------------------------------------
\* Reference tables (the entries of the symbols of the model)
\* ------------------------------------------------------------------------

\* KNOWN_SHORT[symbol.toUpperCase()] || 0, in percent
getShortInterest(symbol) ==
    CASE symbol = "GME"  -> Q(152, 10)
      [] symbol = "PATH" -> Q(185, 10)
      [] symbol = "HOOD" -> Q(68, 10)
      [] symbol = "RIOT" -> Q(312, 10)
      [] OTHER           -> QI(0)

\* KNOWN_FLOAT[symbol.toUpperCase()] || 500000000
getFloat(symbol) ==
    CASE symbol = "GME"  -> 304000000
      [] symbol = "PATH" -> 215000000
      [] symbol = "HOOD" -> 890000000
      [] symbol = "RIOT" -> 73000000
      [] OTHER           -> 500000000

\* ------------------------------------------------------------------------
\* Configuration
\* ------------------------------------------------------------------------

\* the configuration object of the running script; the literals below are
\* the objects the four scripts define
VARIABLE FILTERS

FILTERS_V4 ==
    [gapDownMin |-> -10, gapDownMax |-> -3,
     consolidationMax |-> 20, consolidationMin |-> 3,
     gapFillMin |-> 0, gapFillMax |-> 100,
     trendMin |-> 25,
     shortInterestMin |-> 5, floatMax |-> 1000000000, volumeMin |-> 1000000,
     maxPrice |-> 40,
     optionMinPrice |-> Q(1, 100), optionMaxPrice |-> Q(10, 100),
     scoreMin |-> 15]

\* ------------------------------------------------------------------------
\* V4 indicator engine
\* ------------------------------------------------------------------------

Null == [tag |-> "null"]

\* number of j > 1 with h[j] > h[j-1]
HigherCount(h) == Cardinality({j \in 2..Len(h) : h[j] > h[j - 1]})

\* the additions to the running total, in the order the code makes them
TrendSteps(values) ==
    LET closes  == Closes(values)
        current == Last(closes)
        s20 == SumSeq(SliceLast(closes, 20))      \* ma20 = s20 / 20
        s50 == SumSeq(SliceLast(closes, 50))      \* ma50 = s50 / 50
        r10 == SumSeq(SliceLast(closes, 10))      \* recent10 = r10 / 10
        p10 == SumSeq(SliceMid(closes, 20, 10))   \* prev10 = p10 / 10
        momentum == Q((r10 - p10) * 100, p10)
        hhCount == HigherCount(SliceLast(closes, 20))
        a == IF current * 20 > s20 THEN 15 ELSE -10
        b == IF current * 50 > s50 THEN 15 ELSE -10
        c == IF s20 * 50 > s50 * 20 THEN 15
             ELSE IF s20 * 50 * 100 > s50 * 20 * 95 THEN 5
             ELSE -15
        d == IF QGt(momentum, QI(5)) THEN 15
             ELSE IF QGt(momentum, QI(0)) THEN 10
             ELSE IF QGt(momentum, QI(-5)) THEN 5
             ELSE -10
        e == IF hhCount > 12 THEN 15
             ELSE IF hhCount > 8 THEN 10
             ELSE IF hhCount > 5 THEN 5
             ELSE -10
        f == IF current * 200 > SumSeq(SliceLast(closes, 200)) THEN 10 ELSE -10
    IN  IF Len(closes) >= 200 THEN <<a, b, c, d, e, f>> ELSE <<a, b, c, d, e>>

\* the values of score: 50, then one value after each addition
TrendTotals(values) ==
    LET steps == TrendSteps(values)
    IN  [k \in 1..(Len(steps) + 1) |-> 50 + SumSeq(SubSeq(steps, 1, k - 1))]

\* the score returned as it is
Clamp_None(score) == score

\* Math.max(0, Math.min(100, score))
Clamp(score) == IF score < 0 THEN 0 ELSE IF score > 100 THEN 100 ELSE score

calculateTrendScore(values) ==
    IF Len(values) < 50 THEN 50
    ELSE Clamp(Last(TrendTotals(values)))

\* the day-over-day change of bar j, in points
GapAt_Points(values, j) == QI(values[j].close - values[j - 1].close)

\* the day-over-day change of bar j, in percent
GapAt(values, j) ==
    Q((values[j].close - values[j - 1].close) * 100, values[j - 1].close)

\* "Find biggest gap down": the loop over i = 1 .. length-1 (0-based);
\* st = [maxGap, gapDay], gapDay = Null while no down day was seen
RECURSIVE GapLoop(_, _, _)
GapLoop(values, j, st) ==
    IF j > Len(values) THEN st
    ELSE IF QLt(GapAt(values, j), st.maxGap)
         THEN GapLoop(values, j + 1, [maxGap |-> GapAt(values, j), gapDay |-> values[j]])
         ELSE GapLoop(values, j + 1, st)

FindGap(values) == GapLoop(values, 2, [maxGap |-> QI(0), gapDay |-> Null])

\* values.findIndex(v => v.datetime === datetime), 1-based, 0 when absent
FindIndex(values, datetime) ==
    IF \E j \in 1..Len(values) : values[j].datetime = datetime
    THEN CHOOSE j \in 1..Len(values) :
            /\ values[j].datetime = datetime
            /\ \A k \in 1..(j - 1) : values[k].datetime # datetime
    ELSE 0

\* the indicator record built from an ascending series (both provider paths of
\* getHistory run this computation; the caller has ensured Len(values) >= 5)
HistoryRecord(values) ==
    LET g        == FindGap(values)
        gapDay   == g.gapDay
        current  == Last(values)
        filled   == Q((gapDay.close - current.close) * 100, gapDay.close)
        gapFillPct == QMax(QI(0), QMin(QI(100), filled))
        recent   == SliceLast(values, 5)
        high     == MaxSeq(Highs(recent))
        low      == MinSeq(Lows(recent))
        vol5n    == SumSeq(Volumes(recent))                \* vol5 = vol5n / 5
        volPrevn == SumSeq(Volumes(SliceMid(values, 10, 5))) \* volPrev = volPrevn / 5
        gapIndex == FindIndex(values, gapDay.datetime)
    IN  IF gapDay = Null THEN Null
        ELSE [tag |-> "history",
              gapDown |-> g.maxGap,
              gapDay |-> gapDay.datetime,
              daysSinceGap |-> Len(values) - gapIndex,
              consolidation |-> Q((high - low) * 100, low),
              gapFillPct |-> gapFillPct,
              volumeTrend |-> IF volPrevn > 0
                              THEN Q((vol5n - volPrevn) * 100, volPrevn)
                              ELSE QI(0),
              currentPrice |-> current.close,
              gapDayPrice |-> gapDay.close,
              prevGapDayClose |-> IF gapIndex >= 2
                                  THEN JsOr(values[gapIndex - 1].close, gapDay.close)
                                  ELSE gapDay.close,
              trendScore |-> calculateTrendScore(values)]

\* ------------------------------------------------------------------------
\* V4 composite score
\* ------------------------------------------------------------------------

Between(x, lo, hi) == QGe(x, QI(lo)) /\ QLe(x, QI(hi))

calculateScore(data) ==
    LET fill == data.gapFillPct
        days == data.daysSinceGap
        cons == data.consolidation
        vol  == data.volumeTrend
        si   == data.shortInterest
        gap  == QAbs(data.gapDown)
        trend == JsOr(data.trendScore, 50)
        pFill == IF Between(fill, 50, 80) THEN 25
                 ELSE IF Between(fill, 30, 90) THEN 20
                 ELSE IF Between(fill, 20, 95) THEN 15
                 ELSE IF Between(fill, 10, 100) THEN 10 ELSE 0
        pDays == IF days = 1 THEN 15
                 ELSE IF days = 2 THEN 12
                 ELSE IF days <= 3 THEN 10
                 ELSE IF days <= 5 THEN 7
                 ELSE IF days <= 7 THEN 5 ELSE 0
        pCons == IF QLt(cons, QI(5)) THEN 15
                 ELSE IF QLt(cons, QI(8)) THEN 12
                 ELSE IF QLt(cons, QI(10)) THEN 10
                 ELSE IF QLt(cons, QI(15)) THEN 7 ELSE 0
        pVol  == IF QGt(vol, QI(50)) THEN 15
                 ELSE IF QGt(vol, QI(20)) THEN 12
                 ELSE IF QGt(vol, QI(0)) THEN 8
                 ELSE IF QGt(vol, QI(-10)) THEN 5 ELSE 0
        pSi   == IF QGt(si, QI(30)) THEN 15
                 ELSE IF QGt(si, QI(20)) THEN 12
                 ELSE IF QGt(si, QI(15)) THEN 10
                 ELSE IF QGt(si, QI(10)) THEN 7
                 ELSE IF QGt(si, QI(5)) THEN 5 ELSE 0
        pGap  == IF Between(gap, 5, 8) THEN 10
                 ELSE IF Between(gap, 4, 10) THEN 7
                 ELSE IF Between(gap, 3, 12) THEN 5 ELSE 0
        pTrend == IF trend >= 70 THEN 15
                  ELSE IF trend >= 60 THEN 12
                  ELSE IF trend >= 50 THEN 10
                  ELSE IF trend >= 40 THEN 5
                  ELSE IF trend >= 30 THEN 0 ELSE -15
        score == pFill + pDays + pCons + pVol + pSi + pGap + pTrend
    IN  IF score < 100 THEN score ELSE 100

\* ------------------------------------------------------------------------
\* Provider payloads (the inputs of a run)
\* ------------------------------------------------------------------------

\* an ascending daily series of n bars, datetime 1..n: the close starts at
\* base, loses slope a day, drops by d at bar k (k = 0: no drop) and changes
\* by t on the last bar; high/low are sp points away from the close
SeriesClose(n, base, slope, k, d, t, j) ==
    base - slope * j - (IF k > 0 /\ j >= k THEN d ELSE 0)
        + (IF j = n /\ j > k THEN t ELSE 0)

Series(n, base, slope, k, d, t, sp) ==
    [j \in 1..n |->
        [close    |-> SeriesClose(n, base, slope, k, d, t, j),
         high     |-> SeriesClose(n, base, slope, k, d, t, j) + sp,
         low      |-> SeriesClose(n, base, slope, k, d, t, j) - sp,
         volume   |-> 1200000,
         datetime |-> j]]

SeriesBrief  == Series(6, 100, 0, 5, 5, 0, 2)     \* 5..19 bars, -5% gap
SeriesGap    == Series(20, 100, 0, 18, 5, -1, 2)  \* -5% gap, then one more down day
SeriesCheap  == Series(20, 20, 0, 18, 1, 0, 1)    \* a $20 stock, -5% gap

\* a slump: 30 days at $120, five days down $4 each to $100, then sideways
\* with the last close at $99; wide daily ranges, volume drying up at the end
SlumpClose(j) ==
    IF j <= 30 THEN 120
    ELSE IF j <= 35 THEN 120 - 4 * (j - 30)
    ELSE IF j = 60 THEN 99
    ELSE IF j > 40 /\ j <= 54 /\ j % 2 = 0 THEN 101
    ELSE 100

SeriesSlump ==
    [j \in 1..60 |->
        [close |-> SlumpClose(j), high |-> SlumpClose(j) + 8, low |-> SlumpClose(j) - 8,
         volume |-> IF j > 55 THEN 1000000 ELSE 1500000,
         datetime |-> j]]

AllSeries ==
    LET SeriesShort  == Series(4, 100, 0, 3, 5, 0, 2)     \* fewer than 5 bars
        SeriesFlat   == Series(20, 100, 0, 0, 0, 0, 2)    \* no down day
        SeriesBigGap == Series(20, 100, 0, 19, 12, 0, 2)  \* -12% gap
        SeriesDown   == Series(60, 200, 1, 58, 8, 0, 1)  \* steady decline with a gap
    IN
            {SeriesShort, SeriesBrief, SeriesGap, SeriesFlat, SeriesBigGap,
              SeriesDown, SeriesCheap}

\* Twelve Data /quote: the request throws (network error, timeout) or
\* answers with a payload
TDQuotePayloads ==
    { [throws |-> TRUE,  code |-> 0,   status |-> "",      close |-> NaN, volume |-> NaN, average_volume |-> NaN],
      [throws |-> FALSE, code |-> 400, status |-> "error", close |-> NaN, volume |-> NaN, average_volume |-> NaN],
      [throws |-> FALSE, code |-> 404, status |-> "",      close |-> NaN, volume |-> NaN, average_volume |-> NaN],
      [throws |-> FALSE, code |-> 0,   status |-> "error", close |-> NaN, volume |-> NaN, average_volume |-> NaN],
      [throws |-> FALSE, code |-> 0,   status |-> "ok",    close |-> 20,  volume |-> 2000000, average_volume |-> 1500000],
      \* a quote without a usable price: field absent, zero, negative
      [throws |-> FALSE, code |-> 0,   status |-> "ok",    close |-> NaN, volume |-> 2000000, average_volume |-> 1500000],
      [throws |-> FALSE, code |-> 0,   status |-> "ok",    close |-> 0,   volume |-> 2000000, average_volume |-> 1500000],
      [throws |-> FALSE, code |-> 0,   status |-> "ok",    close |-> -5,  volume |-> 2000000, average_volume |-> 1500000] }

\* Alpha Vantage GLOBAL_QUOTE
AVQuotePayloads ==
    { [throws |-> TRUE,  hasQuote |-> FALSE, price |-> NaN, volume |-> NaN],
      [throws |-> FALSE, hasQuote |-> FALSE, price |-> NaN, volume |-> NaN],
      [throws |-> FALSE, hasQuote |-> TRUE,  price |-> 21,  volume |-> 3000000] }

\* Twelve Data /time_series: values are listed newest first
TDHistoryPayloads ==
    { [throws |-> TRUE,  hasValues |-> FALSE, values |-> << >>],
      [throws |-> FALSE, hasValues |-> FALSE, values |-> << >>] }
    \cup { [throws |-> FALSE, hasValues |-> TRUE, values |-> Reverse(s)] : s \in AllSeries }

\* Alpha Vantage TIME_SERIES_DAILY: an object keyed by date (listed here
\* newest first, as the provider writes it)
AVHistoryPayloads ==
    { [throws |-> TRUE,  hasSeries |-> FALSE, series |-> << >>],
      [throws |-> FALSE, hasSeries |-> FALSE, series |-> << >>] }
    \cup { [throws |-> FALSE, hasSeries |-> TRUE, series |-> Reverse(s)] : s \in AllSeries }

\* ------------------------------------------------------------------------
\* V4 data fetching: what each function does with a provider's answer.
\* A step yields [threw, val]: threw = the function leaves its try block
\* with an exception, val = the value it returns otherwise
\* ------------------------------------------------------------------------

Return(v) == [threw |-> FALSE, val |-> v]
Throw == [threw |-> TRUE, val |-> Null]

QuoteRecord(symbol, price, volume, avgVolume) ==
    [tag |-> "quote", symbol |-> symbol, price |-> price,
     volume |-> volume, avgVolume |-> avgVolume]

\* getQuote with the status test inverted
getQuotePrimary_InvertedStatus(symbol, p) ==
    IF p.throws THEN Throw
    ELSE IF p.code = 400 \/ p.code = 404 THEN Throw
    ELSE IF p.status # "error" THEN Throw
    ELSE Return(QuoteRecord(symbol, p.close, p.volume, p.average_volume))

\* getQuote, try block: the Twelve Data answer
getQuotePrimary(symbol, p) ==
    IF p.throws THEN Throw
    ELSE IF p.code = 400 \/ p.code = 404 THEN Throw
    ELSE IF p.status = "error" THEN Throw
    ELSE Return(QuoteRecord(symbol, p.close, p.volume, p.average_volume))

\* getQuote whose fallback branch builds the record but does not return it
getQuoteFallback_NoReturn(symbol, p) == Return(Null)

\* getQuote without the inner try / catch
getQuoteFallback_NoCatch(symbol, p) ==
    IF p.throws THEN Throw
    ELSE IF p.hasQuote THEN Return(QuoteRecord(symbol, p.price, p.volume, p.volume))
    ELSE Return(Null)

\* getQuote, catch block: the Alpha Vantage answer; catch (e2) {} swallows
\* every failure and the function falls through to return null
getQuoteFallback(symbol, p) ==
    IF p.throws THEN Return(Null)
    ELSE IF p.hasQuote THEN Return(QuoteRecord(symbol, p.price, p.volume, p.volume))
    ELSE Return(Null)

\* getHistory, try block: the Twelve Data answer
getHistoryPrimary(p) ==
    IF p.throws THEN Throw
    ELSE IF ~p.hasValues \/ Len(p.values) < 5 THEN Throw
    ELSE Return(HistoryRecord(Reverse(p.values)))

\* Object.keys(ts).sort(): ascending dates
SortByDate(series) == SortSeq(series, LAMBDA a, b : a.datetime < b.datetime)

\* getHistory without the inner try / catch
getHistoryFallback_NoCatch(p) ==
    IF p.throws THEN Throw
    ELSE IF ~p.hasSeries THEN Return(Null)
    ELSE IF Len(p.series) < 20 THEN Return(Null)
    ELSE Return(HistoryRecord(SliceLast(SortByDate(p.series), 60)))

\* getHistory, catch block: the Alpha Vantage answer
getHistoryFallback(p) ==
    IF p.throws THEN Return(Null)
    ELSE IF ~p.hasSeries THEN Return(Null)
    ELSE IF Len(p.series) < 20 THEN Return(Null)
    ELSE Return(HistoryRecord(SliceLast(SortByDate(p.series), 60)))

\* ------------------------------------------------------------------------
\* V3 data fetching (single provider, no fallback)
\* ------------------------------------------------------------------------

getQuote_V3(symbol, p) ==
    IF p.throws THEN Return(Null)
    ELSE IF p.code = 400 \/ p.code = 404 THEN Return(Null)
    ELSE IF p.status = "error" THEN Return(Null)
    ELSE Return(QuoteRecord(symbol, p.close, p.volume, p.average_volume))

\* the series is read in the provider's order (newest first)
getHistory_V3(p) ==
    IF p.throws THEN Return(Null)
    ELSE IF ~p.hasValues \/ Len(p.values) < 5 THEN Return(Null)
    ELSE LET closes == Closes(p.values)
             h5 == SliceLast(Highs(p.values), 5)
             l5 == SliceLast(Lows(p.values), 5)
             fiveDaysAgo == JsOr(closes[Len(closes) - 4], closes[1])
             current == closes[1]
         IN  Return([tag |-> "history",
                     gapDown |-> Q((current - fiveDaysAgo) * 100, fiveDaysAgo),
                     consolidation |-> Q((MaxSeq(h5) - MinSeq(l5)) * 100, MinSeq(l5))])

\* ------------------------------------------------------------------------
\* V5: configuration, indicators, score, getStockData
\* ------------------------------------------------------------------------

FILTERS_V5 ==
    [maxPrice |-> 50,
     gapDownMin |-> -15, gapDownMax |-> -3,
     consolidationMax |-> 15, consolidationMin |-> 2,
     rsiMax |-> 60,
     volumeMin |-> 500000,
     gapFillMin |-> 0, gapFillMax |-> 90,
     shortInterestMin |-> 10,
     scoreMin |-> 20]

\* a quotient whose numerator or denominator is NaN
QNaN == Q(NaN, 1)

\* the loop of calculateRSI over 0-based i = length - period .. length - 1;
\* st = [gains, losses]
RECURSIVE RsiLoop(_, _, _)
RsiLoop(closes, j, st) ==
    IF j > Len(closes) THEN st
    ELSE LET change == closes[j] - closes[j - 1]
         IN  IF change > 0
             THEN RsiLoop(closes, j + 1, [gains |-> st.gains + change, losses |-> st.losses])
             ELSE RsiLoop(closes, j + 1, [gains |-> st.gains, losses |-> st.losses - change])

\* without the neutral answer: a short series counts as no gains
calculateRSI_NoNeutral(closes, period) ==
    IF Len(closes) < period + 1 THEN QI(0)
    ELSE LET st == RsiLoop(closes, Len(closes) - period + 1, [gains |-> 0, losses |-> 0])
         IN  IF st.losses = 0 THEN QI(100)
             ELSE Q(100 * st.gains, st.gains + st.losses)

\* 100 - 100 / (1 + gains / losses) = 100 * gains / (gains + losses)
calculateRSI(closes, period) ==
    IF Len(closes) < period + 1 THEN QI(50)
    ELSE LET st == RsiLoop(closes, Len(closes) - period + 1, [gains |-> 0, losses |-> 0])
         IN  IF st.losses = 0 THEN QI(100)
             ELSE Q(100 * st.gains, st.gains + st.losses)

\* the gap loop of getStockData over the closes; gapDay = [close, date] with
\* date the 0-based index, Null while no down day was seen
RECURSIVE GapLoop_V5(_, _, _)
GapLoop_V5(closes, j, st) ==
    IF j > Len(closes) THEN st
    ELSE LET gap == Q((closes[j] - closes[j - 1]) * 100, closes[j - 1])
         IN  IF QLt(gap, st.maxGap)
             THEN GapLoop_V5(closes, j + 1,
                      [maxGap |-> gap, gapDay |-> [close |-> closes[j], date |-> j - 1]])
             ELSE GapLoop_V5(closes, j + 1, st)

\* getStockData up to its second await: the Twelve Data quote answer.
\* done = the function has returned (null); otherwise val holds its locals
\* and the time series request is sent
getStockDataQuote(p) ==
    IF p.throws THEN [done |-> TRUE, val |-> Null]
    ELSE IF p.status = "error" THEN [done |-> TRUE, val |-> Null]
    ELSE IF JsGt(p.close, FILTERS.maxPrice) \/ JsLe(p.close, 0)
         THEN [done |-> TRUE, val |-> Null]
    ELSE [done |-> FALSE,
          val |-> [tag |-> "locals", price |-> p.close, volume |-> p.volume,
                   avgVolume |-> p.average_volume]]

\* V5: the bars in the order of each per-bar series getStockData builds;
\* hist.reverse() reverses the array in place, each of the four times
BarOrder_V5(values) ==
    [closes  |-> Reverse(values),
     highs   |-> Reverse(Reverse(values)),
     lows    |-> Reverse(Reverse(Reverse(values))),
     volumes |-> Reverse(Reverse(Reverse(Reverse(values))))]

\* getStockData after its second await: the Twelve Data time series answer.
\* hist.reverse() reverses the array in place, each of the four times
getStockDataHistory(sym, loc, p) ==
    IF p.throws THEN Null
    ELSE IF ~p.hasValues \/ Len(p.values) < 20 THEN Null
    ELSE
    LET closes == Closes(BarOrder_V5(p.values).closes)
        highs  == Highs(BarOrder_V5(p.values).highs)
        lows   == Lows(BarOrder_V5(p.values).lows)
        vols   == Volumes(BarOrder_V5(p.values).volumes)
        s20    == SumSeq(SliceLast(closes, 20))
        ma20   == Q(s20, 20)
        ma50   == IF Len(closes) >= 50 THEN Q(SumSeq(SliceLast(closes, 50)), 50) ELSE ma20
        ma200  == IF Len(closes) >= 200 THEN Q(SumSeq(SliceLast(closes, 200)), 200) ELSE ma50
        g      == GapLoop_V5(closes, 2, [maxGap |-> QI(0), gapDay |-> Null])
        currentPrice == Last(closes)
        gapFilled == IF g.gapDay # Null
                     THEN Q((g.gapDay.close - currentPrice) * 100, g.gapDay.close)
                     ELSE QI(0)
        recent == SliceLast(closes, 5)
        high5  == MaxSeq(recent)
        low5   == MinSeq(recent)
        v20    == SumSeq(SliceLast(vols, 20))     \* avgVol20 = v20 / 20
    IN  [tag |-> "data", symbol |-> sym,
         price |-> loc.price, volume |-> loc.volume, avgVolume |-> loc.avgVolume,
         rsi |-> calculateRSI(closes, 14),
         ma20 |-> ma20, ma50 |-> ma50, ma200 |-> ma200,
         gapDown |-> g.maxGap,
         gapFillPct |-> QMax(QI(0), QMin(QI(100), gapFilled)),
         daysSinceGap |-> IF g.gapDay # Null THEN Len(closes) - 1 - g.gapDay.date ELSE 999,
         consolidation |-> Q((high5 - low5) * 100, low5),
         volSpike |-> IF loc.volume = NaN \/ v20 = 0 THEN QNaN
                      ELSE Q(loc.volume * 20, v20)]

calculateScore_V5(data) ==
        \* data.price > ma, for an integer (or NaN) price and a quotient ma
    LET PriceAbove(price, ma) == price # NaN /\ price * ma.den > ma.num
    IN
    LET gap  == QAbs(data.gapDown)
        fill == data.gapFillPct
        si   == getShortInterest(data.symbol)
        vs   == data.volSpike
        pRsi == IF QLe(data.rsi, QI(30)) THEN 20
                ELSE IF QLe(data.rsi, QI(40)) THEN 15
                ELSE IF QLe(data.rsi, QI(50)) THEN 10
                ELSE IF QLe(data.rsi, QI(60)) THEN 5 ELSE 0
        pGap == IF Between(gap, 5, 10) THEN 15
                ELSE IF Between(gap, 3, 15) THEN 10 ELSE 0
        pFill == IF Between(fill, 20, 70) THEN 15
                 ELSE IF Between(fill, 10, 90) THEN 10 ELSE 0
        pCons == IF QLt(data.consolidation, QI(5)) THEN 10
                 ELSE IF QLt(data.consolidation, QI(10)) THEN 7
                 ELSE IF QLt(data.consolidation, QI(15)) THEN 4 ELSE 0
        pVol == IF vs = QNaN THEN 0
                ELSE IF QGe(vs, QI(2)) THEN 10
                ELSE IF QGe(vs, Q(15, 10)) THEN 7
                ELSE IF QGe(vs, Q(12, 10)) THEN 4 ELSE 0
        pSi == IF QGe(si, QI(25)) THEN 15
               ELSE IF QGe(si, QI(15)) THEN 12
               ELSE IF QGe(si, QI(10)) THEN 8
               ELSE IF QGe(si, QI(5)) THEN 4 ELSE 0
        pMa == (IF PriceAbove(data.price, data.ma20) THEN 5 ELSE 0)
               + (IF PriceAbove(data.price, data.ma50) THEN 5 ELSE 0)
        pDays == IF data.daysSinceGap <= 3 THEN 5
                 ELSE IF data.daysSinceGap <= 7 THEN 3 ELSE 0
        score == pRsi + pGap + pFill + pCons + pVol + pSi + pMa + pDays
    IN  IF score < 100 THEN score ELSE 100

\* ------------------------------------------------------------------------
\* V2: configuration, getStockData (Yahoo chart), score (shared with V3)
\* ------------------------------------------------------------------------

FILTERS_V2 ==
    [gapDownMin |-> -20, gapDownMax |-> -5, consolidationMax |-> 12,
     shortInterestMin |-> 15, floatMax |-> 1000000000, volumeMin |-> 1000000,
     maxPrice |-> 40, optionMinPrice |-> Q(1, 100), optionMaxPrice |-> Q(10, 100),
     scoreMin |-> 20]

FILTERS_V3 ==
    [gapDownMin |-> -25, gapDownMax |-> -5, consolidationMax |-> 15,
     shortInterestMin |-> 15, floatMax |-> 1000000000, volumeMin |-> 1000000,
     maxPrice |-> 40, optionMinPrice |-> Q(1, 100), optionMaxPrice |-> Q(10, 100),
     scoreMin |-> 20]

\* the chart of a 6-day range of a $20 stock that lost $1 on day 5
SeriesChart == Series(6, 20, 0, 5, 1, 0, 0)

\* Yahoo chart payloads: the arrays ascend by date (nulls already absent)
YahooPayloads ==
    { [throws |-> TRUE,  hasResult |-> FALSE, regularMarketPrice |-> NaN,
       chartPreviousClose |-> NaN, regularMarketVolume |-> NaN, bars |-> << >>],
      [throws |-> FALSE, hasResult |-> FALSE, regularMarketPrice |-> NaN,
       chartPreviousClose |-> NaN, regularMarketVolume |-> NaN, bars |-> << >>],
      [throws |-> FALSE, hasResult |-> TRUE, regularMarketPrice |-> 19,
       chartPreviousClose |-> 20, regularMarketVolume |-> 2000000, bars |-> SeriesChart],
      [throws |-> FALSE, hasResult |-> TRUE, regularMarketPrice |-> 19,
       chartPreviousClose |-> 19, regularMarketVolume |-> 2000000, bars |-> SeriesChart],
      [throws |-> FALSE, hasResult |-> TRUE, regularMarketPrice |-> 95,
       chartPreviousClose |-> 100, regularMarketVolume |-> 0, bars |-> SeriesBrief] }

getStockData_V2(sym, p) ==
    IF p.throws THEN Null
    ELSE IF ~p.hasResult THEN Null
    ELSE
    LET close  == Closes(p.bars)
        high   == Highs(p.bars)
        low    == Lows(p.bars)
        volume == Volumes(p.bars)
        price  == p.regularMarketPrice
        prevClose == JsOr(p.chartPreviousClose,
                          JsOr(IF Len(close) >= 2 THEN close[Len(close) - 1] ELSE NaN, price))
        h5 == SliceLast(high, 5)
        l5 == SliceLast(low, 5)
        n20 == IF Len(volume) < 20 THEN Len(volume) ELSE 20
        v20 == SumSeq(SliceLast(volume, 20))      \* avgVolume = v20 / n20
    IN  [tag |-> "data", symbol |-> sym, price |-> price, prevClose |-> prevClose,
         gapDown |-> Q((price - prevClose) * 100, prevClose),
         consolidation |-> IF Len(h5) > 0
                           THEN Q((MaxSeq(h5) - MinSeq(l5)) * 100, MinSeq(l5))
                           ELSE QI(100),
         avgVolume |-> IF n20 > 0 /\ v20 > 0 THEN Q(v20, n20)
                       ELSE QI(JsOr(p.regularMarketVolume, 0)),
         volume |-> JsOr(p.regularMarketVolume, 0)]

\* calculateScore of V2 and of V3 (the same text in both scripts)
calculateScore_V2(data) ==
    LET si  == data.shortInterest
        fl  == data.float
        gap == QAbs(data.gapDown)
        vol == data.volume
        pSi == IF QGt(si, QI(40)) THEN 35
               ELSE IF QGt(si, QI(30)) THEN 30
               ELSE IF QGt(si, QI(25)) THEN 25
               ELSE IF QGt(si, QI(20)) THEN 20
               ELSE IF QGt(si, QI(15)) THEN 15
               ELSE IF QGt(si, QI(10)) THEN 10 ELSE 0
        pFloat == IF fl < 10000000 THEN 25
                  ELSE IF fl < 25000000 THEN 20
                  ELSE IF fl < 50000000 THEN 15
                  ELSE IF fl < 100000000 THEN 10
                  ELSE IF fl < 200000000 THEN 5 ELSE 0
        pGap == IF QGe(gap, QI(15)) THEN 20
                ELSE IF QGe(gap, QI(10)) THEN 15
                ELSE IF QGe(gap, QI(7)) THEN 10
                ELSE IF QGe(gap, QI(5)) THEN 5 ELSE 0
        pCons == IF QLt(data.consolidation, QI(5)) THEN 10
                 ELSE IF QLt(data.consolidation, QI(8)) THEN 7
                 ELSE IF QLt(data.consolidation, QI(12)) THEN 5 ELSE 0
        pVol == IF JsGt(vol, 50000000) THEN 10
                ELSE IF JsGt(vol, 20000000) THEN 7
                ELSE IF JsGt(vol, 10000000) THEN 5
                ELSE IF JsGt(vol, 5000000) THEN 3 ELSE 0
        score == pSi + pFloat + pGap + pCons + pVol
    IN  IF score < 100 THEN score ELSE 100

\* ------------------------------------------------------------------------
\* Options estimator. The price is a quotient; a play's price and otm hold
\* what toFixed writes: the premium in cents, the OTM percentage in whole
\* percent
\* ------------------------------------------------------------------------

\* Math.round
Round(q) == (2 * q.num + q.den) \div (2 * q.den)

\* q * (n / d)
QMul(q, n, d) == Q(q.num * n, q.den * d)

\* the strike list without the at-the-money strike
Strikes_NoAtm(price) ==
    << Round(QMul(price, 95, 100)), Round(QMul(price, 105, 100)),
       Round(QMul(price, 90, 100)), Round(QMul(price, 110, 100)) >>

Strikes(price) ==
    << Round(price),
       Round(QMul(price, 95, 100)), Round(QMul(price, 105, 100)),
       Round(QMul(price, 90, 100)), Round(QMul(price, 110, 100)) >>

\* V2-V4 dedupe, then filter; V5 filters, then dedupes
UniqueStrikes(v, price) ==
    IF v = "V5"
    THEN Dedupe(SelectSeq(Strikes(price), LAMBDA s : s > 0 /\ s < 100), {})
    ELSE SelectSeq(Dedupe(Strikes(price), {}), LAMBDA s : s > 0 /\ s < 100)

\* the band of the premium: FILTERS.optionMinPrice / optionMaxPrice in V2-V4,
\* the literals 0.01 / 0.10 in V5
OptionBand(v) ==
    IF v = "V5" THEN [min |-> Q(1, 100), max |-> Q(10, 100)]
    ELSE [min |-> FILTERS.optionMinPrice, max |-> FILTERS.optionMaxPrice]

\* the body of unique.forEach: the plays pushed for one strike
Play(v, price, strike) ==
    LET dist      == QAbs(Q(strike * price.den - price.num, price.den))
        otmPct    == Q(dist.num * 100, price.num)
        isCall    == strike * price.den >= price.num
        intrinsic == dist
        \* intrinsic + timeValue, timeValue = 0.03 + (otmPct / 100) * 0.05
        raw       == Q(intrinsic.num * 100 * price.num + 3 * price.den * price.num
                          + 5 * dist.num * price.den,
                       100 * price.den * price.num)
        band      == OptionBand(v)
        optPrice  == QMin(band.max, QMax(band.min, raw))
    IN  IF QGt(otmPct, QI(15)) THEN << >>
        ELSE IF QGe(optPrice, band.min) /\ QLe(optPrice, band.max)
             THEN << [type   |-> IF isCall THEN "call" ELSE "put",
                      strike |-> strike,
                      price  |-> Round(Q(optPrice.num * 100, optPrice.den)),
                      otm    |-> Round(otmPct)] >>
             ELSE << >>

RECURSIVE Plays(_, _, _)
Plays(v, price, strikes) ==
    IF strikes = << >> THEN << >>
    ELSE Play(v, price, strikes[1]) \o Plays(v, price, Tail(strikes))

\* findCheapOptions without the final slice
findCheapOptions_NoSlice(v, price) ==
    IF price = QNaN \/ price.num = 0 THEN << >>
    ELSE IF QGt(price, QI(IF v = "V5" THEN 50 ELSE 40)) \/ QLt(price, QI(1)) THEN << >>
    ELSE Plays(v, price, UniqueStrikes(v, price))

findCheapOptions(v, price) ==
    IF price = QNaN \/ price.num = 0 THEN << >>
    ELSE IF QGt(price, QI(IF v = "V5" THEN 50 ELSE 40)) \/ QLt(price, QI(1)) THEN << >>
    ELSE SliceFirst(Plays(v, price, UniqueStrikes(v, price)), 3)

\* ------------------------------------------------------------------------
\* State
\* ------------------------------------------------------------------------

VARIABLES
    variant,        \* which scanner script runs: "V2", "V3", "V4", "V5"
    STOCK_UNIVERSE, \* the raw ticker list of the script
    tracker,        \* PerformanceTracker: this.data, as saved to performance.json
    i,              \* loop index of main (0-based)
    pc,             \* position of main: "loop", "await", "delay", "done", "rejected"
    inflight,       \* provider requests sent and not yet answered
    iterLog,        \* events of the current loop iteration, in order
    lastResp,       \* the provider answer handled last
    quoteP,         \* promise of getQuote(symbol)
    histP,          \* promise of getHistory(symbol)
    dataP,          \* promise of getStockData(symbol)
    local,          \* locals of getStockData held across its second await
    fetched,        \* symbols whose fetch main has invoked, in order
    failed,         \* symbols for which some provider request failed
    unavailable,    \* symbols for which a fallback source failed as well
    unpriced,       \* symbols whose quote came without a positive price
    delayCount,     \* per loop index: how often delay() was awaited
    stockData,      \* list filled by the loop (quotes in V3, results in V5)
    filtered,       \* V4 filtered / V2, V3 gapDownFiltered
    gapFillReady,   \* V4
    trendFiltered,  \* V4
    withGamma,      \* V4 withGamma / V2, V3 gammaCandidates
    scored,         \* the list main returns
    fn,             \* the function under call ("main" in a scanner run)
    arg,            \* its argument
    ret             \* [done, val]: whether it has returned, and what

vars == <<variant, STOCK_UNIVERSE, FILTERS, tracker, i, pc, inflight, iterLog, lastResp, quoteP,
          histP, dataP, local, fetched, failed, unavailable, unpriced, delayCount,
          stockData, filtered, gapFillReady, trendFiltered, withGamma, scored,
          fn, arg, ret>>

UNIQUE_STOCKS == UniqueOf(STOCK_UNIVERSE)

\* UNIQUE_STOCKS[i]
symbol == UNIQUE_STOCKS[i + 1]

Idle == [st |-> "idle", val |-> Null]
Pending == [st |-> "pending", val |-> Null]

\* the promise of an async function that finished with step result r
Settled(r) == IF r.threw THEN [st |-> "rejected", val |-> Null]
              ELSE [st |-> "fulfilled", val |-> r.val]

Req(kind, src) == [symbol |-> symbol, kind |-> kind, src |-> src]
Event(ev, kind, src) == [ev |-> ev, kind |-> kind, src |-> src]

NoResp == [kind |-> "", src |-> "", payload |-> Null]

Variants == {"V2", "V3", "V4", "V5"}

RawUniverses ==
    LET Symbols == {"GME", "AAPL"}
    IN
               UNION {[1..n -> Symbols] : n \in 1..MaxUniverse}

\* a call that has not returned / that returned value
NotCalled == [done |-> FALSE, val |-> Null]
Returned(value) == [done |-> TRUE, val |-> value]

\* the state of main before its loop
MainInit ==
    /\ i = 0
    /\ pc = "loop"
    /\ inflight = {}
    /\ iterLog = << >>
    /\ lastResp = NoResp
    /\ quoteP = Idle
    /\ histP = Idle
    /\ dataP = Idle
    /\ local = Null
    /\ fetched = << >>
    /\ failed = {}
    /\ unavailable = {}
    /\ unpriced = {}
    /\ delayCount = [j \in 0..(MaxUniverse - 1) |-> 0]
    /\ stockData = << >>
    /\ filtered = << >>
    /\ gapFillReady = << >>
    /\ trendFiltered = << >>
    /\ withGamma = << >>
    /\ scored = << >>

\* PerformanceTracker.load() without a performance.json
EmptyStore == [sessions |-> << >>, strategies |-> << >>, mistakes |-> << >>, wins |-> << >>]

\* the FILTERS literal of the script
FiltersOf(v) ==
    CASE v = "V2" -> FILTERS_V2
      [] v = "V3" -> FILTERS_V3
      [] v = "V4" -> FILTERS_V4
      [] v = "V5" -> FILTERS_V5

Init ==
    /\ variant \in Variants
    /\ STOCK_UNIVERSE \in RawUniverses
    /\ FILTERS = FiltersOf(variant)
    /\ tracker = EmptyStore
    /\ MainInit
    /\ fn = "main"
    /\ arg = Null
    /\ ret = NotCalled

unitVars == <<fn, arg, ret>>
cascadeVars == <<filtered, gapFillReady, trendFiltered, withGamma, scored>>
\* the variables of main and its fetches
mainVars == <<i, pc, inflight, iterLog, lastResp, quoteP, histP, dataP, local,
              fetched, failed, unavailable, unpriced, delayCount, stockData>>

\* what no step of a scan changes
constVars == <<variant, STOCK_UNIVERSE, FILTERS, tracker>>

\* ------------------------------------------------------------------------
\* main, loop body up to the first await: the fetch of UNIQUE_STOCKS[i] is
\* invoked; each async function runs to its first await, i.e. sends its
\* first request
\* ------------------------------------------------------------------------

\* the requests sent when the fetch is invoked, in the order of the calls
FirstRequests(v) ==
    CASE v \in {"V3", "V4"} -> <<Req("quote", "primary"), Req("history", "primary")>>
      [] v = "V5"           -> <<Req("quote", "primary")>>
      [] OTHER              -> <<Req("chart", "primary")>>

StartFetch ==
    /\ pc = "loop"
    /\ i < Len(UNIQUE_STOCKS)
    /\ pc' = "await"
    /\ fetched' = Append(fetched, symbol)
    /\ inflight' = inflight \cup Range(FirstRequests(variant))
    /\ iterLog' = [j \in 1..Len(FirstRequests(variant)) |->
                      Event("request", FirstRequests(variant)[j].kind, "primary")]
    /\ lastResp' = NoResp
    /\ quoteP' = IF variant \in {"V3", "V4"} THEN Pending ELSE Idle
    /\ histP' = IF variant \in {"V3", "V4"} THEN Pending ELSE Idle
    /\ dataP' = IF variant \in {"V2", "V5"} THEN Pending ELSE Idle
    /\ local' = Null
    /\ UNCHANGED <<i, failed, unavailable, unpriced, delayCount, stockData>>
    /\ UNCHANGED cascadeVars
    /\ UNCHANGED constVars
    /\ UNCHANGED unitVars

\* ------------------------------------------------------------------------
\* getQuote / getHistory resume when a provider answers (V3, V4)
\* ------------------------------------------------------------------------

Answered(kind, src, p) == [kind |-> kind, src |-> src, payload |-> p]

\* the provider did not deliver data: the request threw, or the payload is
\* an error answer or lacks the data object
ProviderFailed(kind, src, p) ==
    \/ p.throws
    \/ kind = "quote" /\ src = "primary" /\ (p.code \in {400, 404} \/ p.status = "error")
    \/ kind = "quote" /\ src = "fallback" /\ ~p.hasQuote
    \/ kind = "history" /\ src = "primary" /\ ~p.hasValues
    \/ kind = "history" /\ src = "fallback" /\ ~p.hasSeries
    \/ kind = "chart" /\ ~p.hasResult

\* the price field of a delivered quote: close (Twelve Data), 05. price
\* (Alpha Vantage)
QuotedPrice(src, p) == IF src = "primary" THEN p.close ELSE p.price

\* bookkeeping shared by the answer handlers: the request leaves the set of
\* requests in flight, requests sent by the handler join it
Receive(req, p, sent) ==
    /\ lastResp' = Answered(req.kind, req.src, p)
    /\ inflight' = (inflight \ {req}) \cup Range(sent)
    /\ iterLog' = Append(iterLog, Event("response", req.kind, req.src))
                     \o [j \in 1..Len(sent) |-> Event("request", sent[j].kind, sent[j].src)]
    /\ failed' = IF ProviderFailed(req.kind, req.src, p)
                 THEN failed \cup {req.symbol} ELSE failed
    /\ unavailable' = IF req.src = "fallback" /\ ProviderFailed(req.kind, req.src, p)
                      THEN unavailable \cup {req.symbol} ELSE unavailable
    /\ unpriced' = IF req.kind = "quote" /\ ~ProviderFailed(req.kind, req.src, p)
                      /\ ~JsGt(QuotedPrice(req.src, p), 0)
                   THEN unpriced \cup {req.symbol} ELSE unpriced

\* Twelve Data answers the quote request
QuoteResponds ==
    /\ variant \in {"V3", "V4"}
    /\ \E req \in inflight, p \in TDQuotePayloads :
          /\ req.kind = "quote" /\ req.src = "primary"
          /\ LET r == IF variant = "V4" THEN getQuotePrimary(req.symbol, p)
                      ELSE getQuote_V3(req.symbol, p)
             IN  IF r.threw /\ variant = "V4"
                 THEN \* the catch block sends the Alpha Vantage request
                      /\ Receive(req, p, <<[req EXCEPT !.src = "fallback"]>>)
                      /\ UNCHANGED quoteP
                 ELSE /\ Receive(req, p, << >>)
                      /\ quoteP' = Settled(r)
    /\ UNCHANGED <<i, pc, histP, dataP, local, fetched, delayCount, stockData>>
    /\ UNCHANGED cascadeVars
    /\ UNCHANGED constVars
    /\ UNCHANGED unitVars

\* Alpha Vantage answers the quote request (V4)
QuoteFallbackResponds ==
    /\ \E req \in inflight, p \in AVQuotePayloads :
          /\ req.kind = "quote" /\ req.src = "fallback"
          /\ Receive(req, p, << >>)
          /\ quoteP' = Settled(getQuoteFallback(req.symbol, p))
    /\ UNCHANGED <<i, pc, histP, dataP, local, fetched, delayCount, stockData>>
    /\ UNCHANGED cascadeVars
    /\ UNCHANGED constVars
    /\ UNCHANGED unitVars

\* Twelve Data answers the time series request
HistoryResponds ==
    /\ variant \in {"V3", "V4"}
    /\ \E req \in inflight, p \in TDHistoryPayloads :
          /\ req.kind = "history" /\ req.src = "primary"
          /\ LET r == IF variant = "V4" THEN getHistoryPrimary(p)
                      ELSE getHistory_V3(p)
             IN  IF r.threw /\ variant = "V4"
                 THEN /\ Receive(req, p, <<[req EXCEPT !.src = "fallback"]>>)
                      /\ UNCHANGED histP
                 ELSE /\ Receive(req, p, << >>)
                      /\ histP' = Settled(r)
    /\ UNCHANGED <<i, pc, quoteP, dataP, local, fetched, delayCount, stockData>>
    /\ UNCHANGED cascadeVars
    /\ UNCHANGED constVars
    /\ UNCHANGED unitVars

\* Alpha Vantage answers the time series request (V4)
HistoryFallbackResponds ==
    /\ \E req \in inflight, p \in AVHistoryPayloads :
          /\ req.kind = "history" /\ req.src = "fallback"
          /\ Receive(req, p, << >>)
          /\ histP' = Settled(getHistoryFallback(p))
    /\ UNCHANGED <<i, pc, quoteP, dataP, local, fetched, delayCount, stockData>>
    /\ UNCHANGED cascadeVars
    /\ UNCHANGED constVars
    /\ UNCHANGED unitVars

\* ------------------------------------------------------------------------
\* getStockData resumes when a provider answers (V5, V2)
\* ------------------------------------------------------------------------

\* V5: Twelve Data answers the quote request
StockDataQuoteResponds ==
    /\ variant = "V5"
    /\ \E req \in inflight, p \in TDQuotePayloads :
          /\ req.kind = "quote" /\ req.src = "primary"
          /\ LET r == getStockDataQuote(p)
             IN  IF r.done
                 THEN /\ Receive(req, p, << >>)
                      /\ dataP' = Settled(Return(r.val))
                      /\ UNCHANGED local
                 ELSE \* the time series request is sent
                      /\ Receive(req, p, <<[req EXCEPT !.kind = "history"]>>)
                      /\ local' = r.val
                      /\ UNCHANGED dataP
    /\ UNCHANGED <<i, pc, quoteP, histP, fetched, delayCount, stockData>>
    /\ UNCHANGED cascadeVars
    /\ UNCHANGED constVars
    /\ UNCHANGED unitVars

\* V5: Twelve Data answers the time series request
StockDataHistoryResponds ==
    /\ variant = "V5"
    /\ \E req \in inflight, p \in TDHistoryPayloads :
          /\ req.kind = "history" /\ req.src = "primary"
          /\ Receive(req, p, << >>)
          /\ dataP' = Settled(Return(getStockDataHistory(req.symbol, local, p)))
    /\ local' = Null
    /\ UNCHANGED <<i, pc, quoteP, histP, fetched, delayCount, stockData>>
    /\ UNCHANGED cascadeVars
    /\ UNCHANGED constVars
    /\ UNCHANGED unitVars

\* V2: Yahoo answers the chart request
ChartResponds ==
    /\ \E req \in inflight, p \in YahooPayloads :
          /\ req.kind = "chart" /\ req.src = "primary"
          /\ Receive(req, p, << >>)
          /\ dataP' = Settled(Return(getStockData_V2(req.symbol, p)))
    /\ UNCHANGED <<i, pc, quoteP, histP, local, fetched, delayCount, stockData>>
    /\ UNCHANGED cascadeVars
    /\ UNCHANGED constVars
    /\ UNCHANGED unitVars

\* ------------------------------------------------------------------------
\* main, loop body after the await of the fetch
\* ------------------------------------------------------------------------

\* the promises main awaits in this script
Awaited(v) == IF v \in {"V3", "V4"} THEN {quoteP, histP} ELSE {dataP}

\* main without the await in front of the fetch
AwaitCompletes_NoAwait(v) == TRUE

\* main with Promise.race in place of Promise.all
AwaitCompletes_Race(v) == \E q \in Awaited(v) : q.st \in {"fulfilled", "rejected"}

\* await Promise.all([...]) / await getStockData(...) returns or throws
AwaitCompletes(v) ==
    \/ \E q \in Awaited(v) : q.st = "rejected"
    \/ \A q \in Awaited(v) : q.st = "fulfilled"

AwaitThrows(v) == \E q \in Awaited(v) : q.st = "rejected"

\* quote?.field
Opt(quote, f) == IF quote = Null THEN NaN ELSE quote[f]

\* V4: the entries pushed to stockData for (quote, history)
Load_V4(sym, quote, history) ==
    IF history # Null /\ QLe(history.gapDown, QI(-3)) /\ QGe(history.gapDown, QI(-15))
    THEN << [symbol |-> sym,
             price |-> JsOr(Opt(quote, "price"), history.currentPrice),
             volume |-> JsOr(Opt(quote, "volume"), 0),
             avgVolume |-> JsOr(Opt(quote, "avgVolume"), 0)] @@ history >>
    ELSE << >>

\* V3: the entries pushed to quotes
Load_V3(sym, quote, history) ==
    IF quote # Null /\ history # Null
    THEN << [symbol |-> quote.symbol, price |-> quote.price, volume |-> quote.volume,
             avgVolume |-> quote.avgVolume, gapDown |-> history.gapDown,
             consolidation |-> history.consolidation, tag |-> "quote"] >>
    ELSE << >>

\* V5: "Apply filters"
Passes_V5(data) ==
    /\ QGe(data.gapDown, QI(FILTERS.gapDownMin))
    /\ QLe(data.gapDown, QI(FILTERS.gapDownMax))
    /\ QLe(data.consolidation, QI(FILTERS.consolidationMax))
    /\ QGe(data.consolidation, QI(FILTERS.consolidationMin))
    /\ QLe(data.rsi, QI(FILTERS.rsiMax))
    /\ JsGe(data.volume, FILTERS.volumeMin)

\* V5: data with shortInterest and score attached
WithScore_V5(sym, data) ==
    [shortInterest |-> getShortInterest(sym), score |-> calculateScore_V5(data)] @@ data

\* V5: the entries pushed to results
Load_V5(sym, data) ==
    IF data # Null /\ Passes_V5(data)
    THEN IF JsGe(WithScore_V5(sym, data).score, FILTERS.scoreMin)
         THEN <<WithScore_V5(sym, data)>> ELSE << >>
    ELSE << >>

\* V2: the entries pushed to stockData
Load_V2(sym, data) == IF data # Null THEN <<data>> ELSE << >>

Loaded(v) ==
    CASE v = "V4" -> Load_V4(symbol, quoteP.val, histP.val)
      [] v = "V3" -> Load_V3(symbol, quoteP.val, histP.val)
      [] v = "V5" -> Load_V5(symbol, dataP.val)
      [] OTHER    -> Load_V2(symbol, dataP.val)

\* main that skips the rest of the body when nothing was loaded
AwaitsDelay_OnlyWhenLoaded(v, loaded) == loaded # << >>

\* await delay(ms) is the last statement of the loop body, on every path
AwaitsDelay(v, loaded) == TRUE

NextIndex(j) == j + 1

Evaluate ==
    /\ pc = "await"
    /\ AwaitCompletes(variant)
    /\ lastResp' = NoResp
    /\ IF AwaitThrows(variant)
       THEN \* main has no try: its promise rejects (main().catch(console.error))
            /\ pc' = "rejected"
            /\ UNCHANGED <<i, iterLog, delayCount, stockData>>
       ELSE /\ stockData' = stockData \o Loaded(variant)
            /\ iterLog' = Append(iterLog, Event("evaluate", "", ""))
            /\ IF AwaitsDelay(variant, Loaded(variant))
               THEN /\ pc' = "delay"
                    /\ delayCount' = [delayCount EXCEPT ![i] = @ + 1]
                    /\ UNCHANGED i
               ELSE /\ pc' = "loop"
                    /\ i' = NextIndex(i)
                    /\ UNCHANGED delayCount
    /\ UNCHANGED <<inflight, quoteP, histP, dataP, local, fetched, failed,
                   unavailable, unpriced>>
    /\ UNCHANGED cascadeVars
    /\ UNCHANGED constVars
    /\ UNCHANGED unitVars

\* the timer of delay(ms) fires; i++
DelayElapsed ==
    /\ pc = "delay"
    /\ pc' = "loop"
    /\ i' = NextIndex(i)
    /\ UNCHANGED <<inflight, iterLog, lastResp, quoteP, histP, dataP, local,
                   fetched, failed, unavailable, unpriced,
                   delayCount, stockData>>
    /\ UNCHANGED cascadeVars
    /\ UNCHANGED constVars
    /\ UNCHANGED unitVars

\* ------------------------------------------------------------------------
\* main after the loop: the filter cascade, scoring and sorting
\* ------------------------------------------------------------------------

Map(s, F(_)) == [j \in 1..Len(s) |-> F(s[j])]

\* an insertion that puts the entry in front of the entries of equal score
RECURSIVE InsertDesc_Unstable(_, _)
InsertDesc_Unstable(sorted, x) ==
    IF sorted = << >> THEN <<x>>
    ELSE IF sorted[1].score > x.score
         THEN <<sorted[1]>> \o InsertDesc_Unstable(Tail(sorted), x)
         ELSE <<x>> \o sorted

\* Array.prototype.sort((a, b) => b.score - a.score): stable, descending
RECURSIVE InsertDesc(_, _)
InsertDesc(sorted, x) ==
    IF sorted = << >> THEN <<x>>
    ELSE IF sorted[1].score >= x.score THEN <<sorted[1]>> \o InsertDesc(Tail(sorted), x)
         ELSE <<x>> \o sorted

RECURSIVE SortByScore(_)
SortByScore(s) ==
    IF s = << >> THEN << >>
    ELSE InsertDesc(SortByScore(SubSeq(s, 1, Len(s) - 1)), Last(s))

\* V4 step 2
Filtered_V4(list) ==
    SelectSeq(list, LAMBDA s :
        /\ QGe(s.gapDown, QI(FILTERS.gapDownMin))
        /\ QLe(s.gapDown, QI(FILTERS.gapDownMax))
        /\ QGe(s.consolidation, QI(FILTERS.consolidationMin))
        /\ QLe(s.consolidation, QI(FILTERS.consolidationMax)))

\* V4 step 3
GapFillReady_V4(list) ==
    SelectSeq(list, LAMBDA s :
        /\ QGe(s.gapFillPct, QI(FILTERS.gapFillMin))
        /\ QLe(s.gapFillPct, QI(FILTERS.gapFillMax)))

\* step 4 filtering the loaded list instead of the output of step 3
TrendFiltered_FromStockData(list) ==
    SelectSeq(stockData, LAMBDA s : s.trendScore >= FILTERS.trendMin)

\* V4 step 4
TrendFiltered_V4(list) ==
    SelectSeq(list, LAMBDA s : s.trendScore >= FILTERS.trendMin)

AddGamma(s) == [shortInterest |-> getShortInterest(s.symbol),
                float |-> getFloat(s.symbol)] @@ s

\* step 5 without the volume floor
WithGamma_NoVolumeFloor(list, F) ==
    SelectSeq(Map(list, AddGamma), LAMBDA s :
        /\ QGe(s.shortInterest, QI(F.shortInterestMin))
        /\ s.float <= F.floatMax
        /\ JsLe(s.price, F.maxPrice))

\* V4 step 5 (and step 3 of V2, V3), F the script's FILTERS
WithGamma(list, F) ==
    SelectSeq(Map(list, AddGamma), LAMBDA s :
        /\ QGe(s.shortInterest, QI(F.shortInterestMin))
        /\ s.float <= F.floatMax
        /\ JsLe(s.price, F.maxPrice)
        /\ JsGe(s.volume, F.volumeMin))

AddScore_V4(s) == [score |-> calculateScore(s)] @@ s
AddScore_V2(s) == [score |-> calculateScore_V2(s)] @@ s

\* the scoring step without the score floor
Scored_V4_NoFloor(list) == SortByScore(Map(list, AddScore_V4))

\* V4 scoring step
Scored_V4(list) ==
    SortByScore(SelectSeq(Map(list, AddScore_V4),
                          LAMBDA s : JsGe(s.score, FILTERS.scoreMin)))

\* V2, V3 step 2
GapDownFiltered(list, F) ==
    SelectSeq(list, LAMBDA s :
        /\ QGe(s.gapDown, QI(F.gapDownMin))
        /\ QLe(s.gapDown, QI(F.gapDownMax))
        /\ QLe(s.consolidation, QI(F.consolidationMax)))

\* V2, V3 step 4
Scored_V2(list, F) ==
    SortByScore(SelectSeq(Map(list, AddScore_V2), LAMBDA s : JsGe(s.score, F.scoreMin)))

Finish ==
    /\ pc = "loop"
    /\ i >= Len(UNIQUE_STOCKS)
    /\ pc' = "done"
    /\ CASE variant = "V4" ->
              /\ filtered' = Filtered_V4(stockData)
              /\ gapFillReady' = GapFillReady_V4(filtered')
              /\ trendFiltered' = TrendFiltered_V4(gapFillReady')
              /\ withGamma' = WithGamma(trendFiltered', FILTERS)
              /\ scored' = Scored_V4(withGamma')
         [] variant = "V5" ->
              /\ scored' = SortByScore(stockData)
              /\ UNCHANGED <<filtered, gapFillReady, trendFiltered, withGamma>>
         [] OTHER ->
              /\ filtered' = GapDownFiltered(stockData, FILTERS)
              /\ withGamma' = WithGamma(filtered', FILTERS)
              /\ scored' = Scored_V2(withGamma', FILTERS)
              /\ UNCHANGED <<gapFillReady, trendFiltered>>
    /\ UNCHANGED <<i, inflight, iterLog, lastResp, quoteP, histP, dataP, local,
                   fetched, failed, unavailable, unpriced,
                   delayCount, stockData>>
    /\ UNCHANGED constVars
    /\ UNCHANGED unitVars

Next ==
    \/ StartFetch
    \/ QuoteResponds
    \/ QuoteFallbackResponds
    \/ HistoryResponds
    \/ HistoryFallbackResponds
    \/ StockDataQuoteResponds
    \/ StockDataHistoryResponds
    \/ ChartResponds
    \/ Evaluate
    \/ DelayElapsed
    \/ Finish

Spec == Init /\ [][Next]_vars

\* every provider request eventually returns or times out (axios timeout),
\* every timer fires, and the event loop runs every continuation
FairSpec == Spec /\ WF_vars(Next)

\* ------------------------------------------------------------------------
\* Runs on an edited configuration: the FILTERS object of the script with
\* one threshold removed (reading it gives undefined, which compares like
\* NaN), over a one-symbol universe
\* ------------------------------------------------------------------------

Thresholds == {"scoreMin", "volumeMin", "maxPrice"}

\* the thresholds of the configuration that are not numbers
Missing(F) == {k \in Thresholds : F[k] = NaN}

ConfigInit ==
    LET Configs(v) ==
            {FiltersOf(v)} \cup {[FiltersOf(v) EXCEPT ![k] = NaN] : k \in Thresholds}
    IN
    /\ variant \in Variants
    /\ STOCK_UNIVERSE \in {u \in RawUniverses : Len(u) = 1}
    /\ FILTERS \in Configs(variant)
    /\ tracker = EmptyStore
    /\ MainInit
    /\ fn = "main"
    /\ arg = Null
    /\ ret = NotCalled

ConfigSpec == ConfigInit /\ [][Next]_vars

\* ------------------------------------------------------------------------
\* PerformanceTracker: the store and the calls of record, one process run
\* (node tracker.js record ...) after the other
\* ------------------------------------------------------------------------

\* "Limit history": the longest sessions list that is kept
SessionLimit == 500

\* the attempts of the strategies in keys, added up
RECURSIVE Attempts(_, _)
Attempts(strategies, keys) ==
    IF keys = {} THEN 0
    ELSE LET k == CHOOSE x \in keys : TRUE
         IN  strategies[k].attempts + Attempts(strategies, keys \ {k})

\* the number of record calls so far
Recorded(data) == Attempts(data.strategies, DOMAIN data.strategies)

\* record(strategy, outcome): this.data when the call returns; entry.id is
\* Date.now(), later for every later call
record(data, strategy, outcome) ==
        \* this.data.strategies[strategy] after the update of record
    LET Tracked ==
            LET old == IF strategy \in DOMAIN data.strategies THEN data.strategies[strategy]
                       ELSE [attempts |-> 0, successes |-> 0, failures |-> 0]
            IN  [attempts  |-> old.attempts + 1,
                 successes |-> old.successes + (IF outcome = "success" THEN 1 ELSE 0),
                 failures  |-> old.failures + (IF outcome = "failure" THEN 1 ELSE 0)]
    IN
    LET entry == [id |-> Recorded(data) + 1, strategy |-> strategy, outcome |-> outcome]
    IN  [sessions   |-> SliceFirst(<<entry>> \o data.sessions, SessionLimit),
         strategies |-> [k \in DOMAIN data.strategies \cup {strategy} |->
                            IF k = strategy THEN Tracked
                            ELSE data.strategies[k]],
         wins       |-> IF outcome = "success" THEN Append(data.wins, entry) ELSE data.wins,
         mistakes   |-> IF outcome = "failure" THEN Append(data.mistakes, entry)
                        ELSE data.mistakes]

\* getMistakes(limit): this.data.mistakes.slice(0, limit)
getMistakes(data, limit) == SliceFirst(data.mistakes, limit)

\* getStats(): the counts of the returned object
getStats(data) ==
    [totalAttempts |-> Len(data.sessions),
     successes |-> Len(data.wins),
     failures  |-> Len(data.mistakes),
     unknown   |-> Len(data.sessions) - Len(data.wins) - Len(data.mistakes),
     strategiesTracked |-> Cardinality(DOMAIN data.strategies)]

\* a run starts from the empty store or from the store WarmUp such calls
\* have filled, and makes up to MaxRecords calls of record
WarmUp == 498

MaxRecords == 4

TrackerInit ==
        \* the store after n calls record("gap_fill", "success") from the empty
        \* store, n <= SessionLimit
    LET WarmStore(n) ==
            IF n = 0 THEN EmptyStore
            ELSE [sessions   |-> [j \in 1..n |-> [id |-> n + 1 - j, strategy |-> "gap_fill",
                                                  outcome |-> "success"]],
                  strategies |-> [k \in {"gap_fill"} |->
                                     [attempts |-> n, successes |-> n, failures |-> 0]],
                  wins       |-> [j \in 1..n |-> [id |-> j, strategy |-> "gap_fill",
                                                  outcome |-> "success"]],
                  mistakes   |-> << >>]
    IN
    /\ variant = "V4"
    /\ STOCK_UNIVERSE = << >>
    /\ FILTERS = FiltersOf(variant)
    /\ tracker \in {EmptyStore, WarmStore(WarmUp)}
    /\ MainInit
    /\ fn = "record"
    /\ arg = Null
    /\ ret = NotCalled

\* node tracker.js record <strategy> <outcome>
Record ==
    LET Strategies == {"gap_fill", "squeeze"}
        Outcomes == {"success", "failure", "partial"}
    IN
    /\ Recorded(tracker) < MaxRecords \/ Recorded(tracker) \in WarmUp..(WarmUp + MaxRecords - 1)
    /\ \E strategy \in Strategies, outcome \in Outcomes :
          tracker' = record(tracker, strategy, outcome)
    /\ UNCHANGED <<variant, STOCK_UNIVERSE, FILTERS>>
    /\ UNCHANGED mainVars
    /\ UNCHANGED cascadeVars
    /\ UNCHANGED unitVars

TrackerSpec == TrackerInit /\ [][Record]_vars

\* ------------------------------------------------------------------------
\* Calls of the scanners' functions on their own: fn is called once with
\* arg, ret receives what it returns; main is not running
\* ------------------------------------------------------------------------

\* prices in steps of ten cents, from 0 up to MaxTenths / 10, and NaN
MaxTenths == 520

\* daily closes of the series a history call is given: a series ends with a
\* pattern of up to MaxPattern closes and is flat at the pattern's first
\* close before it
MaxPattern == 4

CloseLevels == {80, 90, 100, 110}

Patterns == UNION {[1..m -> CloseLevels] : m \in 2..MaxPattern}

\* the ascending series of n bars that ends with the pattern
Padded(pattern, n) ==
    [j \in 1..n |->
        LET c == IF j <= n - Len(pattern) THEN pattern[1]
                 ELSE pattern[j - (n - Len(pattern))]
        IN  [close |-> c, high |-> c + 2, low |-> c - 2,
             volume |-> 1200000, datetime |-> j]]

\* symbols of the reference tables, by short-interest tier
ScoreSymbols == {"GME", "PATH", "HOOD", "RIOT", "AAPL"}

\* the quote of a $20 stock
Quote20(sym) == QuoteRecord(sym, 20, 2000000, 1500000)

\* longest list handed to the scoring and sorting step
MaxRanked == 3

RankSymbols == {"GME", "PATH", "RIOT"}

\* V4: entries of stockData; HOOD's passes every filter and scores -5
RankPool_V4 ==
    UNION {Range(Load_V4(sym, Quote20(sym), HistoryRecord(sr))) :
             sym \in RankSymbols, sr \in {SeriesCheap, SeriesGap}}
    \cup Range(Load_V4("HOOD", Quote20("HOOD"), HistoryRecord(SeriesSlump)))

\* longest close series handed to calculateRSI
MaxCloses == 16

\* the FILTERS objects a call runs under
ConfigsOf(f, v) ==
        \* FILTERS objects that differ from the V4 literal in the gap range
    LET GapConfigs ==
            {[FILTERS_V4 EXCEPT !.gapDownMin = lo, !.gapDownMax = hi] :
                lo \in {-20, -10}, hi \in {-3, -1}}
    IN
                  IF f = "filtered" THEN GapConfigs ELSE {FiltersOf(v)}

Functions == {"findCheapOptions", "getHistory", "calculateScore", "main",
              "calculateRSI", "calculateTrendScore", "filtered",
              "readSeries", "scoreByTrend"}

\* the scripts that define the function
VariantsOf(f) ==
    CASE f = "findCheapOptions" -> Variants
      [] f = "getHistory"       -> {"V4", "V5"}
      [] f = "calculateScore"   -> {"V4", "V5"}
      [] f = "main"             -> Variants
      [] f = "calculateRSI"     -> {"V5"}
      [] f = "calculateTrendScore" -> {"V4"}
      [] f = "filtered"         -> {"V4"}
      [] f = "readSeries"       -> {"V3", "V4", "V5"}
      [] f = "scoreByTrend"     -> {"V4"}

Inputs(name, ver) ==
    LET Prices == {Q(n, 10) : n \in 0..MaxTenths} \cup {QNaN}
        \* getHistory (V4) is given the answer of one source, getStockData (V5) the
        \* Twelve Data answer; 5 and 20 bars are the fewest the paths accept
        HistoryInputs(v) ==
            {[src |-> "primary", values |-> Padded(pt, n)] :
                pt \in {q \in Patterns : Len(q) <= 5}, n \in (IF v = "V4" THEN {5, 20} ELSE {20})}
            \cup {[src |-> "fallback", values |-> Padded(pt, 20)] :
                     pt \in (IF v = "V4" THEN Patterns ELSE {})}
        \* V4 stockData entries: one per combination of sub-score tiers, and the
        \* entries main loads for the series of the model
        ScoreInputs_V4 ==
            {[symbol |-> sym, price |-> 20, volume |-> 2000000, avgVolume |-> 1500000,
              tag |-> "history", gapDown |-> QI(g), gapDay |-> 1, daysSinceGap |-> d,
              consolidation |-> QI(c), gapFillPct |-> QI(f), volumeTrend |-> QI(vt),
              currentPrice |-> 20, gapDayPrice |-> 20, prevGapDayClose |-> 21,
              trendScore |-> t] :
                sym \in ScoreSymbols, g \in {-10, -6, -3}, d \in {1, 4, 10},
                c \in {3, 12, 20}, f \in {0, 15, 50, 100}, vt \in {-20, 60},
                t \in {0, 25, 50, 100}}
            \cup UNION {Range(Load_V4(sym, Quote20(sym), HistoryRecord(sr))) :
                          sym \in ScoreSymbols,
                          sr \in {q \in AllSeries \cup {SeriesSlump} : Len(q) >= 5}}
        \* V5 data records: one per combination of sub-score tiers, and the records
        \* getStockData returns for the series of the model
        ScoreInputs_V5 ==
            {[tag |-> "data", symbol |-> sym, price |-> 20, volume |-> 2000000,
              avgVolume |-> 1500000, rsi |-> QI(r), ma20 |-> QI(ma), ma50 |-> QI(ma),
              ma200 |-> QI(ma), gapDown |-> QI(g), gapFillPct |-> QI(f),
              daysSinceGap |-> d, consolidation |-> QI(c), volSpike |-> QI(vs)] :
                sym \in ScoreSymbols, r \in {20, 45, 60}, ma \in {15, 25},
                g \in {-15, -7, -3}, f \in {0, 40, 95}, d \in {2, 5, 999},
                c \in {2, 8, 15}, vs \in {1, 2}}
            \cup {getStockDataHistory(sym, [tag |-> "locals", price |-> 20,
                                            volume |-> 2000000, avgVolume |-> 1500000],
                                      [throws |-> FALSE, hasValues |-> TRUE,
                                       values |-> Reverse(sr)]) :
                     sym \in ScoreSymbols,
                     sr \in {q \in AllSeries \cup {SeriesSlump} : Len(q) >= 20}}
        \* the lists of at most MaxRanked entries of distinct symbols
        ListsOf(pool) ==
            {l \in UNION {[1..n -> pool] : n \in 1..MaxRanked} :
                \A a, b \in 1..Len(l) : l[a].symbol = l[b].symbol => a = b}
        \* V5: the data getStockData returned; HOOD's passes the filters and scores 19
        RankPool_V5 ==
            {getStockDataHistory(sym,
                 [tag |-> "locals", price |-> 20, volume |-> 2000000, avgVolume |-> 1500000],
                 [throws |-> FALSE, hasValues |-> TRUE, values |-> Reverse(sr)]) :
                sym \in RankSymbols, sr \in {SeriesCheap, SeriesGap}}
            \cup {[tag |-> "data", symbol |-> "HOOD", price |-> 20, volume |-> 2000000,
                   avgVolume |-> 1500000, rsi |-> QI(60), ma20 |-> QI(25), ma50 |-> QI(25),
                   ma200 |-> QI(25), gapDown |-> QI(-3), gapFillPct |-> QI(0),
                   daysSinceGap |-> 999, consolidation |-> QI(15), volSpike |-> QI(1)]}
        \* V2, V3: entries of stockData / quotes
        RankPool_V2 ==
            {[tag |-> "quote", symbol |-> sym, price |-> 20, volume |-> v,
              avgVolume |-> 1500000, gapDown |-> QI(g), consolidation |-> QI(4)] :
                sym \in {"GME", "RIOT", "HOOD"}, g \in {-12, -6}, v \in {2000000, 500000}}
        \* main is given what its fetches returned: the entries of stockData (V2-V4),
        \* the data of getStockData (V5)
        RankInputs(v) ==
            CASE v = "V4" -> ListsOf(RankPool_V4)
              [] v = "V5" -> ListsOf(RankPool_V5)
              [] OTHER    -> ListsOf(RankPool_V2)
        \* close series of 0 to MaxCloses entries
        RsiInputs ==
            {<< >>} \cup {<<c>> : c \in CloseLevels}
            \cup UNION {{Closes(Padded(pt, n)) : n \in Len(pt)..MaxCloses} : pt \in Patterns}
        \* the close of bar j of an n-bar series of the given shape: flat, rising or
        \* falling a dollar a day, falling $8 a day, or flat with five jumps (drops)
        \* of $10 on alternate days among the last ten bars
        TrendClose(shape, n, j) ==
            LET steps == Cardinality({k \in 1..j : k > n - 10 /\ (n - k) % 2 = 1})
            IN  CASE shape = "flat"  -> 300
                  [] shape = "rise"  -> 300 + j
                  [] shape = "fall"  -> 600 - j
                  [] shape = "plunge" -> 200 + 8 * (n - j)
                  [] shape = "jumps" -> 300 + 10 * steps
                  [] shape = "drops" -> 300 - 10 * steps
        TrendShapes == {"flat", "rise", "fall", "plunge", "jumps", "drops"}
        TrendLengths == {49, 50, 60, 200}
        \* series handed to calculateTrendScore
        TrendInputs ==
            {[j \in 1..n |-> [close |-> TrendClose(sh, n, j), high |-> TrendClose(sh, n, j) + 2,
                              low |-> TrendClose(sh, n, j) - 2, volume |-> 1200000,
                              datetime |-> j]] :
                sh \in TrendShapes, n \in TrendLengths}
            \cup {SeriesSlump}
        \* 20 bars at $100 that lose g dollars on the 11th day and stay there
        GapSeries(g) ==
            [j \in 1..20 |->
                LET c == IF j <= 10 THEN 100 ELSE 100 - g
                IN  [close |-> c, high |-> c + 2, low |-> c - 2,
                     volume |-> 1200000, datetime |-> j]]
        GapSizes == {2, 5, 12, 18}
        \* what getHistory returned for the symbol: null or the record of a series
        FilteredInputs ==
            {[symbol |-> "GME", history |-> h] :
                h \in {Null} \cup {HistoryRecord(GapSeries(g)) : g \in GapSizes}}
        \* ascending series of 20 and 25 bars; the provider lists them newest first
        SeriesInputs ==
            {[src |-> sr, values |-> Padded(pt, n)] :
                sr \in {"primary", "fallback"}, pt \in {q \in Patterns : Len(q) = 2}, n \in {20, 25}}
        \* a V4 entry as calculateScore receives it, and two integer trend scores
        TrendPairInputs ==
            {[data |-> AddGamma(d), t1 |-> a, t2 |-> b] :
                d \in {x \in RankPool_V4 : x.symbol \in {"GME", "HOOD"}},
                a \in 0..100, b \in 0..100}
    IN
    CASE name = "findCheapOptions" -> Prices
      [] name = "getHistory"       -> HistoryInputs(ver)
      [] name = "calculateScore"   -> IF ver = "V4" THEN ScoreInputs_V4 ELSE ScoreInputs_V5
      [] name = "main"             -> RankInputs(ver)
      [] name = "calculateRSI"     -> RsiInputs
      [] name = "calculateTrendScore" -> TrendInputs
      [] name = "filtered"         -> FilteredInputs
      [] name = "readSeries"       -> {x \in SeriesInputs : x.src = "primary" \/ ver = "V4"}
      [] name = "scoreByTrend"     -> {x \in TrendPairInputs : x.t1 <= x.t2}

UnitInit ==
    /\ STOCK_UNIVERSE = << >>
    /\ tracker = EmptyStore
    /\ MainInit
    /\ ret = NotCalled
    /\ \E f \in Functions :
          /\ fn = f
          /\ variant \in VariantsOf(f)
          /\ FILTERS \in ConfigsOf(f, variant)
          /\ arg \in Inputs(f, variant)

Returns(value) ==
    /\ ~ret.done
    /\ ret' = Returned(value)
    /\ UNCHANGED <<fn, arg>>
    /\ UNCHANGED mainVars
    /\ UNCHANGED cascadeVars
    /\ UNCHANGED constVars

CallFindCheapOptions ==
    /\ fn = "findCheapOptions"
    /\ Returns(findCheapOptions(variant, arg))

\* the history part of the fetch, on a provider answer listing the series
\* newest first: getHistory's try block or catch block (V4), getStockData
\* after its quote of a $20 stock (V5)
CallGetHistory ==
    /\ fn = "getHistory"
    /\ Returns(CASE variant = "V4" /\ arg.src = "primary" ->
                      getHistoryPrimary([throws |-> FALSE, hasValues |-> TRUE,
                                         values |-> Reverse(arg.values)]).val
                  [] variant = "V4" /\ arg.src = "fallback" ->
                      getHistoryFallback([throws |-> FALSE, hasSeries |-> TRUE,
                                          series |-> Reverse(arg.values)]).val
                  [] OTHER ->
                      getStockDataHistory("GME",
                          [tag |-> "locals", price |-> 20, volume |-> 2000000,
                           avgVolume |-> 1500000],
                          [throws |-> FALSE, hasValues |-> TRUE,
                           values |-> Reverse(arg.values)]))

\* the V4 filters in front of the scoring step
Cascade_V4(list) ==
    WithGamma(TrendFiltered_V4(GapFillReady_V4(Filtered_V4(list))), FILTERS)

\* calculateScore as main calls it: on an entry that passed the filters
CallCalculateScore ==
    /\ fn = "calculateScore"
    /\ IF variant = "V4"
       THEN /\ Cascade_V4(<<arg>>) # << >>
            /\ Returns(calculateScore(Cascade_V4(<<arg>>)[1]))
       ELSE /\ Passes_V5(arg)
            /\ Returns(calculateScore_V5(arg))

\* V5: results when the loop ends
RECURSIVE Results_V5(_)
Results_V5(list) ==
    IF list = << >> THEN << >>
    ELSE Results_V5(SubSeq(list, 1, Len(list) - 1)) \o Load_V5(Last(list).symbol, Last(list))

\* the candidates main scores, with their scores
Candidates(v, list) ==
    CASE v = "V4" -> Map(Cascade_V4(list), AddScore_V4)
      [] v = "V5" -> [j \in 1..Len(SelectSeq(list, Passes_V5)) |->
                         WithScore_V5(SelectSeq(list, Passes_V5)[j].symbol,
                                      SelectSeq(list, Passes_V5)[j])]
      [] OTHER    -> Map(WithGamma(GapDownFiltered(list, FILTERS), FILTERS), AddScore_V2)

\* main from what the fetches returned to the list it emits: the filters,
\* the scoring, the score floor and the sort
CallMainAfterLoop ==
    /\ fn = "main"
    /\ Returns(CASE variant = "V4" -> Scored_V4(Cascade_V4(arg))
                 [] variant = "V5" -> SortByScore(Results_V5(arg))
                 [] OTHER ->
                      Scored_V2(WithGamma(GapDownFiltered(arg, FILTERS), FILTERS), FILTERS))

\* calculateRSI with the default period
CallCalculateRSI ==
        \* the 0-based indices of closes that calculateRSI reads
    LET RsiReads(closes, period) ==
            IF Len(closes) < period + 1 THEN {}
            ELSE UNION {{k, k - 1} : k \in (Len(closes) - period)..(Len(closes) - 1)}
    IN
    /\ fn = "calculateRSI"
    /\ Returns([value |-> calculateRSI(arg, 14), reads |-> RsiReads(arg, 14)])

\* calculateTrendScore, with the values score took on the way
CallCalculateTrendScore ==
    /\ fn = "calculateTrendScore"
    /\ Returns([score |-> calculateTrendScore(arg),
                totals |-> IF Len(arg) < 50 THEN << >> ELSE TrendTotals(arg)])

\* main (V4) for one symbol, from the answer of getHistory to the list
\* filtered of step 2; the quote is the one of a $20 stock
CallMainFiltered ==
    /\ fn = "filtered"
    /\ Returns(Filtered_V4(Load_V4(arg.symbol, Quote20(arg.symbol), arg.history)))

\* the per-bar series getHistory (V3, V4) and getStockData (V5) build from a
\* provider answer that lists the bars newest first
CallReadSeries ==
        \* V3: the bars in the order of closes, highs and lows: data.values as it is
    LET BarOrder_V3(values) == [closes |-> values, highs |-> values, lows |-> values]
        \* V4: the bars in the order of values, which every indicator reads
        BarOrder_V4(src, values) ==
            LET v == IF src = "primary" THEN Reverse(values)
                     ELSE SliceLast(SortByDate(values), 60)
            IN  [closes |-> v, highs |-> v, lows |-> v, volumes |-> v]
    IN
    /\ fn = "readSeries"
    /\ Returns(CASE variant = "V4" -> BarOrder_V4(arg.src, Reverse(arg.values))
                  [] variant = "V5" -> BarOrder_V5(Reverse(arg.values))
                  [] OTHER          -> BarOrder_V3(Reverse(arg.values)))

\* calculateScore (V4) on the same entry with two trend scores
CallScoreByTrend ==
    /\ fn = "scoreByTrend"
    /\ Returns([s1 |-> calculateScore([arg.data EXCEPT !.trendScore = arg.t1]),
                s2 |-> calculateScore([arg.data EXCEPT !.trendScore = arg.t2])])

UnitNext ==
    \/ CallFindCheapOptions
    \/ CallGetHistory
    \/ CallCalculateScore
    \/ CallMainAfterLoop
    \/ CallCalculateRSI
    \/ CallCalculateTrendScore
    \/ CallMainFiltered
    \/ CallReadSeries
    \/ CallScoreByTrend

UnitSpec == UnitInit /\ [][UnitNext]_vars

Called(f) == fn = f /\ ret.done

\* ------------------------------------------------------------------------
\* Properties
\* ------------------------------------------------------------------------

\* the request events of one kind in the log of the current iteration
RequestsOf(kind) ==
    SelectSeq(iterLog, LAMBDA e : e.ev = "request" /\ e.kind = kind)

Sources(events) == [j \in 1..Len(events) |-> events[j].src]

\* positions of an event in the log of the current iteration
Positions(ev, kind, src) ==
    {j \in 1..Len(iterLog) : iterLog[j] = [ev |-> ev, kind |-> kind, src |-> src]}

Responses == {j \in 1..Len(iterLog) : iterLog[j].ev = "response"}

SymbolsOf(list) == {list[j].symbol : j \in 1..Len(list)}

NoDuplicates(list) == \A a, b \in 1..Len(list) : list[a] = list[b] => a = b

\* the bars of an Alpha Vantage series that getHistory keeps (the 60 newest)
Kept(series) ==
    {b \in Range(series) :
        Cardinality({c \in Range(series) : c.datetime > b.datetime}) < 60}

NewestBar(series) ==
    CHOOSE b \in Range(series) : \A c \in Range(series) : c.datetime <= b.datetime

\* some kept day closed below the day before it
HasDownDay(series) ==
    \E a, b \in Kept(series) :
        /\ a.datetime < b.datetime
        /\ \A c \in Kept(series) : ~(a.datetime < c.datetime /\ c.datetime < b.datetime)
        /\ b.close < a.close

FallbackQuoteIsBuilt ==
    (lastResp.kind = "quote" /\ lastResp.src = "fallback"
        /\ ~lastResp.payload.throws /\ lastResp.payload.hasQuote)
    => /\ quoteP.st = "fulfilled"
       /\ quoteP.val # Null
       /\ quoteP.val.price = lastResp.payload.price
       /\ quoteP.val.volume = lastResp.payload.volume

FallbackHistoryIsBuilt(minBars, needsDownDay) ==
    (lastResp.kind = "history" /\ lastResp.src = "fallback"
        /\ ~lastResp.payload.throws /\ lastResp.payload.hasSeries
        /\ Len(lastResp.payload.series) >= minBars
        /\ (needsDownDay => HasDownDay(lastResp.payload.series)))
    => /\ histP.st = "fulfilled"
       /\ histP.val # Null
       /\ histP.val.currentPrice = NewestBar(lastResp.payload.series).close

\* C1 as stated: in V4, when the primary source has failed and the fallback
\* answers with valid data (a quote object; a daily series of at least 5
\* bars, the size the primary path accepts), getQuote / getHistory return a
\* non-null record built from the fallback's data
C1_FallbackValidGivesRecord ==
    variant = "V4" => FallbackQuoteIsBuilt /\ FallbackHistoryIsBuilt(5, FALSE)

\* C1 amended: in V4, when the primary source has failed, getQuote returns a
\* record built from the fallback's quote whenever the fallback answers with
\* a non-empty quote object, and getHistory returns a record built from the
\* fallback's series whenever that series has at least 20 bars and, among
\* its 60 newest bars, a day that closed below the previous day
C1_FallbackRecord ==
    variant = "V4" => FallbackQuoteIsBuilt /\ FallbackHistoryIsBuilt(20, TRUE)

C1_Witness ==
    /\ variant = "V4"
    /\ lastResp.kind = "history" /\ lastResp.src = "fallback"
    /\ histP.st = "fulfilled" /\ histP.val # Null
    /\ quoteP.st = "fulfilled" /\ quoteP.val # Null
    /\ Positions("request", "quote", "fallback") # {}

\* the primary attempt failed, in the words of the claim
PrimaryFailed(kind, p) ==
    IF kind = "quote"
    THEN p.throws \/ p.code = 400 \/ p.code = 404 \/ p.status = "error"
    ELSE p.throws \/ ~p.hasValues \/ Len(p.values) < 5

\* C2: in V4, for the current symbol and each data kind, the requests sent
\* are [primary] or [primary, fallback]; the fallback request is sent exactly
\* when the primary answer was a failure, after that answer, and no source is
\* requested twice
C2_PrimaryThenFallback ==
    variant = "V4" =>
      \A kind \in {"quote", "history"} :
        /\ Sources(RequestsOf(kind)) \in {<< >>, <<"primary">>, <<"primary", "fallback">>}
        /\ \A f \in Positions("request", kind, "fallback") :
              \E a \in Positions("response", kind, "primary") : a < f
        /\ (lastResp.kind = kind /\ lastResp.src = "primary")
              => (Positions("request", kind, "fallback") # {}
                    <=> PrimaryFailed(kind, lastResp.payload))

C2_Witness ==
    /\ variant = "V4"
    /\ Sources(RequestsOf("quote")) = <<"primary", "fallback">>
    /\ Sources(RequestsOf("history")) = <<"primary">>
    /\ histP.st = "fulfilled"
    /\ quoteP.st = "fulfilled"

\* C3: in V4 and V5 no provider failure makes main reject; every symbol of
\* the universe is fetched and evaluated; and whether the evaluated symbol is
\* loaded depends on its own fetch results only, whatever failed before it
C3_FailureIsolation ==
    variant \in {"V4", "V5"} =>
      /\ pc # "rejected"
      /\ (pc = "done" => fetched = UNIQUE_STOCKS)
      /\ NoDuplicates([j \in 1..Len(stockData) |-> stockData[j].symbol])
      /\ SymbolsOf(stockData) \subseteq Range(fetched)
      /\ (pc = "delay" =>
            (symbol \in SymbolsOf(stockData)
               <=> IF variant = "V4"
                   THEN /\ histP.val # Null
                        /\ QLe(histP.val.gapDown, QI(-3))
                        /\ QGe(histP.val.gapDown, QI(-15))
                   ELSE /\ dataP.val # Null
                        /\ Load_V5(symbol, dataP.val) # << >>))

C3_Witness ==
    /\ variant = "V4"
    /\ pc = "done"
    /\ Len(UNIQUE_STOCKS) = 2
    /\ UNIQUE_STOCKS[1] \in failed
    /\ UNIQUE_STOCKS[1] \notin SymbolsOf(stockData)
    /\ UNIQUE_STOCKS[2] \in SymbolsOf(stockData)

\* C4: under FairSpec a run of main of V4 and of V5 reaches its end, for
\* every combination of provider answers
C4_Terminates == (variant \in {"V4", "V5"}) => <>(pc = "done")

\* a run that ends with no candidate although providers failed
C4_Witness ==
    /\ variant \in {"V4", "V5"}
    /\ pc = "done"
    /\ scored = << >>
    /\ failed # {}

\* C5: in V3, V4 and V5 all requests in flight belong to the symbol of the
\* current iteration and main is awaiting them; symbols are started in
\* universe order; an iteration starts only after the delay of every earlier
\* iteration was awaited
C5_SingleWorker ==
    variant \in {"V3", "V4", "V5"} =>
      /\ \A r \in inflight : pc = "await" /\ r.symbol = symbol
      /\ Len(fetched) <= Len(UNIQUE_STOCKS)
      /\ fetched = SubSeq(UNIQUE_STOCKS, 1, Len(fetched))
      /\ Len(fetched) = IF pc \in {"await", "delay"} THEN i + 1 ELSE i
      /\ \A j \in 0..(i - 1) : delayCount[j] >= 1

C5_Witness ==
    /\ variant = "V4"
    /\ i = 1
    /\ Cardinality(inflight) = 2

\* the log of the current iteration starts with both primary requests
BothStartedFirst ==
    iterLog # << >> =>
      /\ Len(iterLog) >= 2
      /\ {iterLog[1], iterLog[2]} = {Event("request", "quote", "primary"),
                                     Event("request", "history", "primary")}

\* the symbol is evaluated once, after every request has been answered
EvaluatedAfterAll ==
    \A e \in Positions("evaluate", "", "") :
       /\ e = Len(iterLog)
       /\ inflight = {}
       /\ \A q \in Awaited(variant) : q.st = "fulfilled"
       /\ Cardinality({j \in 1..Len(iterLog) : iterLog[j].ev = "request"})
             = Cardinality(Responses)

C7_OneDelayPerSymbol ==
    /\ pc \in {"loop", "await", "delay", "done"}
    /\ i <= Len(UNIQUE_STOCKS)
    /\ \A j \in 0..(Len(UNIQUE_STOCKS) - 1) :
          delayCount[j] = IF j < i \/ (j = i /\ pc = "delay") THEN 1 ELSE 0

\* a run in which one symbol's fetch failed and another symbol was loaded
C7_Witness ==
    /\ pc = "done"
    /\ Len(UNIQUE_STOCKS) = 2
    /\ \E s \in failed : s \notin SymbolsOf(stockData)
    /\ stockData # << >>
    /\ \A j \in 0..1 : delayCount[j] = 1

FirstIndexOf(list, x) ==
    CHOOSE j \in 1..Len(list) : list[j] = x /\ \A k \in 1..(j - 1) : list[k] # x

\* C8: UNIQUE_STOCKS holds every symbol of STOCK_UNIVERSE exactly once, in
\* the order of first occurrence, and a run invokes the fetch of each symbol
\* exactly once
C8_UniqueUniverse ==
    /\ Range(UNIQUE_STOCKS) = Range(STOCK_UNIVERSE)
    /\ NoDuplicates(UNIQUE_STOCKS)
    /\ \A a, b \in 1..Len(UNIQUE_STOCKS) :
          a < b => FirstIndexOf(STOCK_UNIVERSE, UNIQUE_STOCKS[a])
                      < FirstIndexOf(STOCK_UNIVERSE, UNIQUE_STOCKS[b])
    /\ NoDuplicates(fetched)
    /\ (pc = "done" => Range(fetched) = Range(STOCK_UNIVERSE))

C8_Witness ==
    /\ pc = "done"
    /\ Len(STOCK_UNIVERSE) > Len(UNIQUE_STOCKS)
    /\ Len(fetched) = Len(UNIQUE_STOCKS)

\* C9: in V4 the symbols after each stage of the cascade are among the
\* symbols after the stage before it
C9_CascadeMonotonic ==
    variant = "V4" =>
      /\ SymbolsOf(stockData) \subseteq Range(UNIQUE_STOCKS)
      /\ pc = "done" =>
            /\ SymbolsOf(filtered) \subseteq SymbolsOf(stockData)
            /\ SymbolsOf(gapFillReady) \subseteq SymbolsOf(filtered)
            /\ SymbolsOf(trendFiltered) \subseteq SymbolsOf(gapFillReady)
            /\ SymbolsOf(withGamma) \subseteq SymbolsOf(trendFiltered)
            /\ SymbolsOf(scored) \subseteq SymbolsOf(withGamma)
            /\ Len(filtered) <= Len(stockData)
            /\ Len(gapFillReady) <= Len(filtered)
            /\ Len(trendFiltered) <= Len(gapFillReady)
            /\ Len(withGamma) <= Len(trendFiltered)
            /\ Len(scored) <= Len(withGamma)

\* a symbol was dropped by a stage and another one reached the results
C9_Witness ==
    /\ variant = "V4"
    /\ pc = "done"
    /\ Len(stockData) = 2
    /\ Len(trendFiltered) = 1
    /\ Len(scored) = 1

ShortInterestMin == IF variant = "V5" THEN FILTERS_V5.shortInterestMin
                    ELSE FILTERS_V4.shortInterestMin

\* C10: in V4 and V5 no symbol whose reference short interest is below
\* FILTERS.shortInterestMin is scored or appears in the results
C10_ShortInterestFloor ==
    variant \in {"V4", "V5"} =>
      /\ \A j \in 1..Len(scored) :
            QGe(getShortInterest(scored[j].symbol), QI(ShortInterestMin))
      /\ variant = "V5" =>
            \A j \in 1..Len(stockData) :
               QGe(getShortInterest(stockData[j].symbol), QI(ShortInterestMin))

\* C11: in V4 and V5 a symbol whose quote was delivered with a non-positive
\* or missing (NaN) price never enters the candidate list filled by the loop
\* and never appears in the results
C11_UnpricedDiscarded ==
    variant \in {"V4", "V5"} =>
      /\ SymbolsOf(stockData) \cap unpriced = {}
      /\ SymbolsOf(scored) \cap unpriced = {}

\* C12: in V4 a symbol for which the fallback source failed after the primary
\* (for its quote or for its history) is absent from the results, and the
\* run does not fail
C12_ProviderUnavailable ==
    variant = "V4" =>
      /\ pc # "rejected"
      /\ SymbolsOf(scored) \cap unavailable = {}

\* a run with results in which a symbol without any quote was loaded on its
\* history alone and dropped by the cascade
C12_Witness ==
    /\ variant = "V4"
    /\ pc = "done"
    /\ scored # << >>
    /\ \E s \in unavailable : s \in SymbolsOf(stockData) /\ s \notin SymbolsOf(scored)

\* |strike - price| of a play, in units of 1 / price.den
Distance(play, price) ==
    IF play.strike * price.den >= price.num
    THEN play.strike * price.den - price.num
    ELSE price.num - play.strike * price.den

\* C15: in V2-V5, for every price, findCheapOptions returns at most 3 plays,
\* and every play has |strike - price| / price <= 15%, a premium between
\* 0.01 and 0.10, and type call exactly when strike >= price, put exactly
\* when strike < price
C15_OptionsSafe ==
    Called("findCheapOptions") =>
      /\ Len(ret.val) <= 3
      /\ \A j \in 1..Len(ret.val) :
            /\ Distance(ret.val[j], arg) * 100 <= 15 * arg.num
            /\ ret.val[j].price >= 1 /\ ret.val[j].price <= 10
            /\ ret.val[j].type \in {"call", "put"}
            /\ ret.val[j].type = "call" <=> ret.val[j].strike * arg.den >= arg.num
            /\ ret.val[j].type = "put" <=> ret.val[j].strike * arg.den < arg.num

\* a non-integer price with five distinct strikes, a put and a call returned
C15_Witness ==
    /\ Called("findCheapOptions")
    /\ arg # QNaN /\ arg.num % arg.den # 0
    /\ Len(UniqueStrikes(variant, arg)) = 5
    /\ Len(ret.val) = 3
    /\ \E j, k \in 1..3 : ret.val[j].type = "put" /\ ret.val[k].type = "call"

\* C16: in V4, for every price in [1, 40], |strike - price| is
\* non-decreasing along the list findCheapOptions returns
C16_SortedByProximity ==
    (Called("findCheapOptions") /\ variant = "V4" /\ arg # QNaN) =>
      \A j, k \in 1..Len(ret.val) :
         j < k => Distance(ret.val[j], arg) <= Distance(ret.val[k], arg)

\* C17: in V4, for every whole-dollar price p with 1 <= p <= 40, the list
\* findCheapOptions returns holds a play at strike p (intrinsic value 0),
\* classified as a call, with OTM 0% and premium 0.03
C17_AtTheMoney ==
    (/\ Called("findCheapOptions") /\ variant = "V4" /\ arg # QNaN
     /\ arg.num % arg.den = 0
     /\ arg.num >= arg.den /\ arg.num <= 40 * arg.den) =>
      \E j \in 1..Len(ret.val) :
         ret.val[j] = [type |-> "call", strike |-> arg.num \div arg.den,
                   price |-> 3, otm |-> 0]

\* price = $20.00: the at-the-money call leads a list of three plays
C17_Witness ==
    /\ Called("findCheapOptions") /\ variant = "V4"
    /\ arg = Q(200, 10)
    /\ Len(ret.val) = 3
    /\ ret.val[1] = [type |-> "call", strike |-> 20, price |-> 3, otm |-> 0]

\* the closes of the series a history call was given, oldest first
ArgCloses == Closes(arg.values)

\* the close-to-close change of bar j, in percent
Change(c, j) == Q((c[j] - c[j - 1]) * 100, c[j - 1])

HasDrop(c) == \E j \in 2..Len(c) : c[j] < c[j - 1]

\* the first bar whose change is the most negative of the series
GapBar(c) ==
    CHOOSE j \in 2..Len(c) :
       /\ \A k \in 2..Len(c) : QLe(Change(c, j), Change(c, k))
       /\ \A k \in 2..(j - 1) : QLt(Change(c, j), Change(c, k))

\* C18: in V4 (both provider paths) and V5, for every series of positive
\* closes the gapFillPct of the returned record lies in [0, 100]
C18_GapFillRange ==
    (Called("getHistory") /\ ret.val # Null) =>
      /\ QGe(ret.val.gapFillPct, QI(0))
      /\ QLe(ret.val.gapFillPct, QI(100))

\* the current close is above the gap-day close, so the quotient the code
\* clamps is negative
C18_Witness ==
    /\ Called("getHistory") /\ ret.val # Null
    /\ arg.src = "fallback"
    /\ Last(ArgCloses) > ArgCloses[GapBar(ArgCloses)]
    /\ QEq(ret.val.gapFillPct, QI(0))

\* C19: in V4 and V5, gapFillPct is 0 when the current close is below the
\* gap-day close, and positive only when the current close is above it
C19_FillDirection ==
    (Called("getHistory") /\ ret.val # Null) =>
      LET current == Last(ArgCloses)
          gapDayClose == ArgCloses[GapBar(ArgCloses)]
      IN  /\ current < gapDayClose => QEq(ret.val.gapFillPct, QI(0))
          /\ QGt(ret.val.gapFillPct, QI(0)) => current > gapDayClose

\* C20: in V4 and V5, for a series with a down day (timestamps distinct),
\* gapDown is the minimum of the close-to-close percentage changes and
\* daysSinceGap = length - 1 - i, i the 0-based index of the first bar with
\* that change; when the series has one drop and is flat after it,
\* gapFillPct is 0
C20_GapDetection ==
    (Called("getHistory") /\ HasDrop(ArgCloses)) =>
      LET c == ArgCloses
          g == GapBar(c)
      IN  /\ ret.val # Null
          /\ QEq(ret.val.gapDown, Change(c, g))
          /\ \A k \in 2..Len(c) : QLe(ret.val.gapDown, Change(c, k))
          /\ ret.val.daysSinceGap = Len(c) - 1 - (g - 1)
          /\ ((\A k \in 2..Len(c) : k # g => c[k] >= c[k - 1])
                /\ (\A k \in g..Len(c) : c[k] = c[g]))
               => QEq(ret.val.gapFillPct, QI(0))

\* two days share the most negative change and the larger drop in points
\* is not the gap
C20_Witness ==
    /\ Called("getHistory") /\ ret.val # Null
    /\ LET c == ArgCloses
           g == GapBar(c)
       IN  /\ \E k \in (g + 1)..Len(c) : QEq(Change(c, k), Change(c, g))
           /\ ret.val.daysSinceGap = Len(c) - g
           /\ ret.val.daysSinceGap >= 2

\* C13: in V4 and V5 calculateScore returns a value in [0, 100] for every
\* candidate that passed the filters, for every combination of sub-score
\* tiers
C13_ScoreRange ==
    Called("calculateScore") => ret.val >= 0 /\ ret.val <= 100

\* position of the entry of a symbol in a list
IndexOf(list, sym) == CHOOSE j \in 1..Len(list) : list[j].symbol = sym

\* C14: in V4 and V5 the list main emits is sorted by score, highest first,
\* and entries of equal score keep the order in which they were fetched
C14_ResultOrder ==
    Called("main") =>
      \A j, k \in 1..Len(ret.val) :
         j < k =>
           /\ ret.val[j].score >= ret.val[k].score
           /\ ret.val[j].score = ret.val[k].score
                 => IndexOf(arg, ret.val[j].symbol) < IndexOf(arg, ret.val[k].symbol)

\* three results: the one fetched last has the highest score, the other two
\* have equal scores
C14_Witness ==
    /\ Called("main")
    /\ Len(arg) = 3 /\ Len(ret.val) = 3
    /\ ret.val[1].symbol = arg[3].symbol
    /\ ret.val[1].score > ret.val[2].score
    /\ ret.val[2].score = ret.val[3].score

\* C21: calculateRSI (V5, period 14) answers exactly 50 for every close
\* series of fewer than 15 entries, the empty one included, and reads no
\* index outside the series
C21_ShortSeriesNeutral ==
    (Called("calculateRSI") /\ Len(arg) < 15) =>
        /\ ret.val.value = QI(50)
        /\ ret.val.reads \subseteq 0..(Len(arg) - 1)

C21_Witness ==
    /\ Called("calculateRSI")
    /\ Len(arg) = 14
    /\ ret.val.value = QI(50)

\* C22: calculateTrendScore (V4) returns a value in [0,100]; score starts at
\* 50, changes only by the fixed amounts, and is clamped once, at the end
C22_TrendScoreClamped ==
    Called("calculateTrendScore") =>
        LET t == ret.val.totals
        IN  /\ ret.val.score \in 0..100
            /\ Len(arg) < 50 => ret.val.score = 50
            /\ Len(arg) >= 50 =>
                  /\ t[1] = 50
                  /\ Len(t) = IF Len(arg) >= 200 THEN 7 ELSE 6
                  /\ \A k \in 1..(Len(t) - 1) :
                        t[k + 1] - t[k] \in
                          (CASE k \in {1, 2} -> {15, -10}
                             [] k = 3       -> {15, 5, -15}
                             [] k \in {4, 5} -> {15, 10, 5, -10}
                             [] OTHER       -> {10, -10})
                  /\ ret.val.score =
                        (IF Last(t) < 0 THEN 0 ELSE IF Last(t) > 100 THEN 100 ELSE Last(t))

\* score is above 100 on the way, comes back into range and is returned as
\* it is; and a final value out of range is clamped
C22_Witness ==
    /\ Called("calculateTrendScore")
    /\ Len(arg) >= 50
    /\ \E k \in 1..Len(ret.val.totals) : ret.val.totals[k] > 100
    /\ Last(ret.val.totals) \in 0..100
    /\ ret.val.score = Last(ret.val.totals)

C22_WitnessClamped ==
    /\ Called("calculateTrendScore")
    /\ Len(arg) >= 50
    /\ Last(ret.val.totals) < 0
    /\ ret.val.score = 0

\* C23: when a threshold of FILTERS is missing or malformed the run aborts
\* before any provider request is issued: no fetch occurs in such a run
C23_FailFast ==
    Missing(FILTERS) # {} => (fetched = << >> /\ inflight = {})

\* C24: in V4, for every FILTERS.gapDownMin <= FILTERS.gapDownMax, a symbol
\* is in the list filtered exactly when getHistory returned a record whose
\* gapDown lies in [gapDownMin, gapDownMax] (and whose consolidation lies in
\* the band FILTERS gives): no bound outside FILTERS decides
C24_ThresholdsFromConfig ==
    (Called("filtered") /\ FILTERS.gapDownMin <= FILTERS.gapDownMax) =>
        (ret.val # << >>
           <=> /\ arg.history # Null
               /\ QGe(arg.history.gapDown, QI(FILTERS.gapDownMin))
               /\ QLe(arg.history.gapDown, QI(FILTERS.gapDownMax))
               /\ QGe(arg.history.consolidation, QI(FILTERS.consolidationMin))
               /\ QLe(arg.history.consolidation, QI(FILTERS.consolidationMax)))

Ascending(bars) ==
    \A j \in 1..(Len(bars) - 1) : bars[j].datetime < bars[j + 1].datetime

\* C25: given a provider answer ordered newest first, each per-bar series
\* the indicators read (V3, V4 getHistory, V5 getStockData) is in ascending
\* order of date, so its trailing 5 bars are the 5 most recent ones
C25_HistoryAscending ==
    Called("readSeries") =>
        \A k \in DOMAIN ret.val :
            /\ Ascending(ret.val[k])
            /\ {b.datetime : b \in Range(SliceLast(ret.val[k], 5))}
                  = (Len(arg.values) - 4)..Len(arg.values)

\* C26: the consolidation percentage (V4 getHistory, V5 getStockData) is
\* (max of the highs - min of the lows) / (min of the lows) * 100 over the
\* trailing 5 bars of the series
C26_Consolidation ==
    (Called("getHistory") /\ ret.val # Null) =>
        LET recent == SliceLast(arg.values, 5)
            high == CHOOSE h \in Range(Highs(recent)) : \A x \in Range(Highs(recent)) : x <= h
            low  == CHOOSE l \in Range(Lows(recent)) : \A x \in Range(Lows(recent)) : l <= x
        IN  QEq(ret.val.consolidation, Q((high - low) * 100, low))

\* C27: in V2-V5 every entry of the emitted results has score >=
\* FILTERS.scoreMin, and every candidate that was scored with a score >=
\* FILTERS.scoreMin is in the emitted results
C27_ScoreFloor ==
    Called("main") =>
        /\ \A j \in 1..Len(ret.val) : ret.val[j].score >= FILTERS.scoreMin
        /\ \A j \in 1..Len(Candidates(variant, arg)) :
              Candidates(variant, arg)[j].score >= FILTERS.scoreMin
                 => \E k \in 1..Len(ret.val) :
                       /\ ret.val[k].symbol = Candidates(variant, arg)[j].symbol
                       /\ ret.val[k].score = Candidates(variant, arg)[j].score

\* a V4 run that scored two candidates and emitted one of them
C27_Witness ==
    /\ Called("main")
    /\ variant = "V4"
    /\ Len(Candidates(variant, arg)) = 2
    /\ Len(ret.val) = 1

C27_WitnessV5 ==
    /\ Called("main")
    /\ variant = "V5"
    /\ Len(Candidates(variant, arg)) = 2
    /\ Len(ret.val) = 1

C27_WitnessV2 ==
    /\ Called("main")
    /\ variant \in {"V2", "V3"}
    /\ Len(ret.val) = 2

\* C28: calculateScore (V4) is monotone in the trend score: with the other
\* fields fixed and integer trend scores 0 <= t1 <= t2 <= 100, the score for
\* t1 is not greater than the score for t2
C28_TrendMonotone ==
    (Called("scoreByTrend") /\ arg.t1 <= arg.t2) => ret.val.s1 <= ret.val.s2

\* C29: after any sequence of record calls from the empty store, getStats()
\* is consistent: successes + failures <= totalAttempts, so that unknown is
\* not negative, also once sessions has been truncated
C29_StatsConsistent ==
    /\ getStats(tracker).successes + getStats(tracker).failures
          <= getStats(tracker).totalAttempts
    /\ getStats(tracker).unknown >= 0

\* the entries recorded so far with outcome failure, latest first (all of
\* them are in sessions while nothing has been truncated)
FailuresLatestFirst == SelectSeq(tracker.sessions, LAMBDA e : e.outcome = "failure")

\* C30: getMistakes(limit) consists of the min(limit, number of failures)
\* most recently recorded entries with outcome failure
C30_RecentMistakes ==
    Recorded(tracker) <= SessionLimit =>
        \A limit \in {1, 3, 10} :
            Range(getMistakes(tracker, limit))
               = Range(SliceFirst(FailuresLatestFirst, limit))

====
